---- MODULE Spec2Model ----
(***************************************************************************)
(* A model of the breakout game of src/code/p11.cpp: the entity Manager    *)
(* (registry), the entities and the collision resolvers, and the loop of   *)
(* Game::run with its state machine.                                        *)
(*                                                                         *)
(* Coordinates and velocities are floats in the source.  The model keeps   *)
(* them as integers in units of 1/Unit pixel; every value the game reaches *)
(* before a paddle bounce is a multiple of half a pixel, hence exact.      *)
(***************************************************************************)
EXTENDS Integers, Sequences, FiniteSets, TLC

VARIABLES
    manager,                \* Game::manager: [entities, groupedEntities]
    state,                  \* Game::state
    remainingLives,         \* Game::remainingLives
    pausePressedLastFrame,  \* Game::pausePressedLastFrame
    pc,                     \* position of the control in main / Game::run
    hashCode,               \* typeid(T).hash_code(), a key for every type
    level,                  \* <<columns, rows>> of the brick grid restart builds
    frames,                 \* simulated frames since the last restart
    obs                     \* what the current frame has read and done (history)

vars == <<manager, state, remainingLives, pausePressedLastFrame, pc,
          hashCode, level, frames, obs>>

(***************************************************************************)
(* Bounds of the model.                                                    *)
(***************************************************************************)
\* Simulated frames explored after a restart.
MaxFrames == 251
\* The move keys are drawn only while the paddle stays within this many
\* steps of its start position.
PaddleRange == 1
\* The reduced brick grid, explored beside the grid of the source so that
\* the end of a level is reached.
SmallCols == 1
SmallRows == 1
\* Objects the registry specification creates between two clears.
MaxObjects == 3

(***************************************************************************)
(* Program constants.                                                      *)
(***************************************************************************)
Unit == 10 * 10

wndWidth == 800
wndHeight == 600

BallDefRadius == 10
BallDefVelocity == 8
PaddleDefWidth == 75
PaddleDefHeight == 20
PaddleDefVelocity == 8
BrickDefWidth == 60
BrickDefHeight == 20

brkCountX == 11
brkCountY == 4
brkStartCol == 1
brkStartRow == 2
brkSpacing == 3
brkOffsetX == 22

StartLives == 3

Types == {"Ball", "Paddle", "Brick"}
States == {"Paused", "GameOver", "InProgress", "Victory"}

Abs(n) == IF n < 0 THEN -n ELSE n

(***************************************************************************)
(* Entities.  One record shape serves the three classes: `type` is the     *)
(* dynamic type of the object.                                             *)
(***************************************************************************)
Ball(mX, mY) ==
    [type |-> "Ball", x |-> mX, y |-> mY,
     vx |-> -(BallDefVelocity * Unit), vy |-> -(BallDefVelocity * Unit),
     requiredHits |-> 0, destroyed |-> FALSE]

Paddle(mX, mY) ==
    [type |-> "Paddle", x |-> mX, y |-> mY, vx |-> 0, vy |-> 0,
     requiredHits |-> 0, destroyed |-> FALSE]

Brick(mX, mY) ==
    [type |-> "Brick", x |-> mX, y |-> mY, vx |-> 0, vy |-> 0,
     requiredHits |-> 1, destroyed |-> FALSE]

\* Rectangle::width/height and Circle::radius, doubled for the circle.
width(e) ==
    CASE e.type = "Ball" -> 2 * BallDefRadius * Unit
      [] e.type = "Paddle" -> PaddleDefWidth * Unit
      [] OTHER -> BrickDefWidth * Unit

height(e) ==
    CASE e.type = "Ball" -> 2 * BallDefRadius * Unit
      [] e.type = "Paddle" -> PaddleDefHeight * Unit
      [] OTHER -> BrickDefHeight * Unit

left(e) == e.x - width(e) \div 2
right(e) == e.x + width(e) \div 2
top(e) == e.y - height(e) \div 2
bottom(e) == e.y + height(e) \div 2

\* isIntersecting with the first comparison strict.
isIntersecting_Strict(mA, mB) ==
    /\ right(mA) > left(mB)
    /\ left(mA) <= right(mB)
    /\ bottom(mA) >= top(mB)
    /\ top(mA) <= bottom(mB)

isIntersecting(mA, mB) ==
    /\ right(mA) >= left(mB)
    /\ left(mA) <= right(mB)
    /\ bottom(mA) >= top(mB)
    /\ top(mA) <= bottom(mB)

(***************************************************************************)
(* Manager.  A pointer is the position of an object in `heap`, the memory  *)
(* std::make_unique allocates from; a cell whose object was deleted holds  *)
(* Freed.  `entities` is the vector of owning pointers, in creation order; *)
(* `groupedEntities` maps a hash key to the vector of raw pointers stored  *)
(* under it.                                                               *)
(***************************************************************************)
Freed == [type |-> "freed", x |-> 0, y |-> 0, vx |-> 0, vy |-> 0,
          requiredHits |-> 0, destroyed |-> FALSE]

EmptyManager ==
    [entities |-> <<>>, groupedEntities |-> [k \in {} |-> <<>>], heap |-> <<>>]

\* The pointers the manager owns.
Owned(m) == {m.entities[i] : i \in DOMAIN m.entities}

\* A pointer that refers to an object that was not deleted.
IsLive(m, p) == p \in DOMAIN m.heap /\ m.heap[p].type # "freed"

\* *ptr, and the write through a pointer.
Deref(m, p) == m.heap[p]

Store(m, p, e) == [m EXCEPT !.heap[p] = e]

\* std::map::operator[] as a read: the vector under the key, empty if absent.
Bucket(m, k) ==
    IF k \in DOMAIN m.groupedEntities THEN m.groupedEntities[k] ELSE <<>>

\* std::map::operator[] as a write: the key is inserted when absent.
WithBucket(g, k, v) == [j \in DOMAIN g \cup {k} |-> IF j = k THEN v ELSE g[j]]

\* A create that stores the entity and does not index it.
ManagerCreate_NoIndex(m, e) ==
    [m EXCEPT !.entities = Append(m.entities, Len(m.heap) + 1),
              !.heap = Append(m.heap, e)]

\* A create that indexes the entity at the front of its bucket.
ManagerCreate_Front(m, e) ==
    LET ptr == Len(m.heap) + 1
        k == hashCode[e.type]
    IN  [entities |-> Append(m.entities, ptr),
         groupedEntities |->
             WithBucket(m.groupedEntities, k, <<ptr>> \o Bucket(m, k)),
         heap |-> Append(m.heap, e)]

\* Manager::create<T>(args...), e the constructed T.
ManagerCreate(m, e) ==
    LET ptr == Len(m.heap) + 1
        k == hashCode[e.type]
    IN  [entities |-> Append(m.entities, ptr),
         groupedEntities |->
             WithBucket(m.groupedEntities, k, Append(Bucket(m, k), ptr)),
         heap |-> Append(m.heap, e)]

\* The reference Manager::create returns: the entity created last.
LastPtr(m) == m.entities[Len(m.entities)]

\* mPtr->destroyed, read through a pointer.
PtrDestroyed(m, p) == p \in DOMAIN m.heap /\ m.heap[p].destroyed

\* A refresh whose erase takes one iterator: a call erases the first of
\* the destroyed entities and leaves the others.
ManagerRefresh_OneAtATime(m) ==
    LET gone == {p \in {m.entities[i] : i \in DOMAIN m.entities} :
                    p \in DOMAIN m.heap /\ m.heap[p].destroyed}
        first == CHOOSE p \in gone : \A q \in gone : p <= q
    IN  IF gone = {} THEN m
        ELSE [entities |-> SelectSeq(m.entities, LAMBDA p : p # first),
              groupedEntities |->
                  [k \in DOMAIN m.groupedEntities |->
                      SelectSeq(m.groupedEntities[k], LAMBDA p : p # first)],
              heap |-> [p \in DOMAIN m.heap |->
                           IF p = first THEN Freed ELSE m.heap[p]]]

\* A refresh that erases from the owning vector only.
ManagerRefresh_KeepBuckets(m) ==
    LET gone == {p \in {m.entities[i] : i \in DOMAIN m.entities} :
                    p \in DOMAIN m.heap /\ m.heap[p].destroyed}
    IN  [entities |-> SelectSeq(m.entities, LAMBDA p : p \notin gone),
         groupedEntities |-> m.groupedEntities,
         heap |-> [p \in DOMAIN m.heap |-> IF p \in gone THEN Freed ELSE m.heap[p]]]

\* A refresh that purges the buckets only.
ManagerRefresh_BucketsOnly(m) ==
    [m EXCEPT !.groupedEntities =
        [k \in DOMAIN m.groupedEntities |->
            SelectSeq(m.groupedEntities[k],
                      LAMBDA p : ~(p \in DOMAIN m.heap /\ m.heap[p].destroyed))]]

\* Manager::refresh: the buckets are purged first, then the owning vector,
\* whose erased unique_ptrs delete their objects.
ManagerRefresh(m) ==
    LET gone == {p \in Owned(m) : PtrDestroyed(m, p)}
    IN  [entities |-> SelectSeq(m.entities, LAMBDA p : ~PtrDestroyed(m, p)),
         groupedEntities |->
             [k \in DOMAIN m.groupedEntities |->
                 SelectSeq(m.groupedEntities[k], LAMBDA p : ~PtrDestroyed(m, p))],
         heap |-> [p \in DOMAIN m.heap |-> IF p \in gone THEN Freed ELSE m.heap[p]]]

\* A clear that forgets groupedEntities.clear().
ManagerClear_KeepBuckets(m) ==
    [entities |-> <<>>, groupedEntities |-> m.groupedEntities, heap |-> <<>>]

\* Manager::clear: every object is deleted, and its memory free again.
ManagerClear(m) == EmptyManager

\* Manager::getAll<T>: the vector returned, and the manager it leaves.
GetAll(m, T) == Bucket(m, hashCode[T])

\* A query that leaves the map with the bucket it read alone.
AfterGetAll_DropOthers(m, T) ==
    [m EXCEPT !.groupedEntities = [j \in {hashCode[T]} |-> GetAll(m, T)]]

AfterGetAll(m, T) ==
    [m EXCEPT !.groupedEntities =
        WithBucket(m.groupedEntities, hashCode[T], GetAll(m, T))]

(***************************************************************************)
(* Fixed-point helpers for the vector utilities.                           *)
(***************************************************************************)
\* Division rounded to the nearest integer, b > 0.
RDiv(a, b) == IF a >= 0 THEN (2 * a + b) \div (2 * b)
                        ELSE -((2 * (-a) + b) \div (2 * b))

ISqrt(n) == CHOOSE r \in 0..(3 * Unit) : r * r <= n /\ n < (r + 1) * (r + 1)

\* getLength, of a vector in units of 1/Unit.
getLength(vx, vy) == ISqrt(vx * vx + vy * vy)

\* getNormalized: the unit vector, in units of 1/Unit.
getNormalized(vx, vy) ==
    <<RDiv(vx * Unit, getLength(vx, vy)), RDiv(vy * Unit, getLength(vx, vy))>>

\* getDotProduct of a vector and a unit vector, in units of 1/Unit.
getDotProduct(ax, ay, bx, by) == RDiv(ax * bx + ay * by, Unit)

\* getReflected: mVec - mNormal * (2 * dot(mVec, mNormal)).
getReflected(vx, vy, nx, ny) ==
    <<vx - RDiv(nx * 2 * getDotProduct(vx, vy, nx, ny), Unit),
      vy - RDiv(ny * 2 * getDotProduct(vx, vy, nx, ny), Unit)>>

(***************************************************************************)
(* Entity::update of the three classes.                                    *)
(***************************************************************************)
\* Bound collisions that reflect at the bottom bound as at the top.
solveBoundCollisions_BounceBottom(b) ==
    LET b1 == IF left(b) < 0 \/ right(b) > wndWidth * Unit
              THEN [b EXCEPT !.vx = -b.vx] ELSE b
    IN  IF top(b1) < 0 \/ bottom(b1) > wndHeight * Unit
        THEN [b1 EXCEPT !.vy = -b1.vy]
        ELSE b1

\* Ball::solveBoundCollisions
solveBoundCollisions(b) ==
    LET b1 == IF left(b) < 0 \/ right(b) > wndWidth * Unit
              THEN [b EXCEPT !.vx = -b.vx] ELSE b
    IN  IF top(b1) < 0 THEN [b1 EXCEPT !.vy = -b1.vy]
        ELSE IF bottom(b1) > wndHeight * Unit THEN [b1 EXCEPT !.destroyed = TRUE]
        ELSE b1

\* An update that moves the ball along both axes by velocity.x.
BallUpdate_MoveByX(b) ==
    solveBoundCollisions([b EXCEPT !.x = b.x + b.vx, !.y = b.y + b.vx])

\* Ball::update
BallUpdate(b) == solveBoundCollisions([b EXCEPT !.x = b.x + b.vx, !.y = b.y + b.vy])

\* Paddle::processPlayerInput, keyLeft and keyRight the two keys as read.
processPlayerInput(p, keyLeft, keyRight) ==
    IF keyLeft /\ left(p) > 0 THEN [p EXCEPT !.vx = -(PaddleDefVelocity * Unit)]
    ELSE IF keyRight /\ right(p) < wndWidth * Unit
         THEN [p EXCEPT !.vx = PaddleDefVelocity * Unit]
    ELSE [p EXCEPT !.vx = 0]

\* Paddle::update
PaddleUpdate(p, keyLeft, keyRight) ==
    LET q == processPlayerInput(p, keyLeft, keyRight)
    IN  [q EXCEPT !.x = q.x + q.vx, !.y = q.y + q.vy]

\* Brick::update only picks the colour from requiredHits.
BrickUpdate(b) == b

\* The virtual call e->update().
EntityUpdate(e, keyLeft, keyRight) ==
    CASE e.type = "Ball" -> BallUpdate(e)
      [] e.type = "Paddle" -> PaddleUpdate(e, keyLeft, keyRight)
      [] OTHER -> BrickUpdate(e)

\* Manager::update: e->update() on the entities in creation order, i the
\* position of the next one.
RECURSIVE UpdateFrom(_, _, _, _)
UpdateFrom(m, i, keyLeft, keyRight) ==
    IF i > Len(m.entities) THEN m
    ELSE UpdateFrom(
             Store(m, m.entities[i],
                   EntityUpdate(Deref(m, m.entities[i]), keyLeft, keyRight)),
             i + 1, keyLeft, keyRight)

\* An update that erases the entities it finds destroyed.
ManagerUpdate_Purging(m, keyLeft, keyRight) ==
    ManagerRefresh(UpdateFrom(m, 1, keyLeft, keyRight))

\* An update whose loop stops one entity short.
ManagerUpdate_SkipLast(m, keyLeft, keyRight) ==
    IF m.entities = <<>> THEN m
    ELSE Store(UpdateFrom(m, 1, keyLeft, keyRight), LastPtr(m),
               Deref(m, LastPtr(m)))

ManagerUpdate(m, keyLeft, keyRight) == UpdateFrom(m, 1, keyLeft, keyRight)

(***************************************************************************)
(* The collision resolvers.                                                *)
(***************************************************************************)
\* A paddle resolver without the early return.
solvePaddleBallCollision_NoGuard(mPaddle, mBall) ==
    LET newY == top(mPaddle) - BallDefRadius * Unit * 2
        paddleBallDiff == mBall.x - mPaddle.x
        posFactor == RDiv(paddleBallDiff * Unit, width(mPaddle))
        velFactor == RDiv(mPaddle.vx * 5, 100)
        n == getNormalized(posFactor + velFactor, -(2 * Unit))
        v == getReflected(mBall.vx, mBall.vy, n[1], n[2])
    IN  [mBall EXCEPT !.y = newY, !.vx = v[1], !.vy = v[2]]

\* A paddle resolver that leaves the ball where it is.
solvePaddleBallCollision_NoReposition(mPaddle, mBall) ==
    IF ~isIntersecting(mPaddle, mBall) THEN mBall
    ELSE LET paddleBallDiff == mBall.x - mPaddle.x
             posFactor == RDiv(paddleBallDiff * Unit, width(mPaddle))
             velFactor == RDiv(mPaddle.vx * 5, 100)
             n == getNormalized(posFactor + velFactor, -(2 * Unit))
             v == getReflected(mBall.vx, mBall.vy, n[1], n[2])
         IN  [mBall EXCEPT !.vx = v[1], !.vy = v[2]]

\* solvePaddleBallCollision: the ball it leaves.
solvePaddleBallCollision(mPaddle, mBall) ==
    IF ~isIntersecting(mPaddle, mBall) THEN mBall
    ELSE LET newY == top(mPaddle) - BallDefRadius * Unit * 2
             paddleBallDiff == mBall.x - mPaddle.x
             posFactor == RDiv(paddleBallDiff * Unit, width(mPaddle))
             velFactor == RDiv(mPaddle.vx * 5, 100)
             n == getNormalized(posFactor + velFactor, -(2 * Unit))
             v == getReflected(mBall.vx, mBall.vy, n[1], n[2])
         IN  [mBall EXCEPT !.y = newY, !.vx = v[1], !.vy = v[2]]

\* A brick resolver that destroys a brick one collision late.
solveBrickBallCollision_LateDestroy(mBrick, mBall) ==
    IF ~isIntersecting(mBrick, mBall) THEN [brick |-> mBrick, ball |-> mBall]
    ELSE LET hits == mBrick.requiredHits - 1
             overlapLeft == right(mBall) - left(mBrick)
             overlapRight == right(mBrick) - left(mBall)
             overlapTop == bottom(mBall) - top(mBrick)
             overlapBottom == bottom(mBrick) - top(mBall)
             bFromLeft == Abs(overlapLeft) < Abs(overlapRight)
             bFromTop == Abs(overlapTop) < Abs(overlapBottom)
             minOverlapX == IF bFromLeft THEN overlapLeft ELSE overlapRight
             minOverlapY == IF bFromTop THEN overlapTop ELSE overlapBottom
         IN  [brick |-> [mBrick EXCEPT !.requiredHits = hits,
                                       !.destroyed = (hits < 0) \/ mBrick.destroyed],
              ball |-> IF Abs(minOverlapX) < Abs(minOverlapY)
                       THEN [mBall EXCEPT !.vx = Abs(mBall.vx) *
                                              (IF bFromLeft THEN -1 ELSE 1)]
                       ELSE [mBall EXCEPT !.vy = Abs(mBall.vy) *
                                              (IF bFromTop THEN -1 ELSE 1)]]

\* A brick resolver whose axis test is <=: a tie is a side hit.
solveBrickBallCollision_TieHorizontal(mBrick, mBall) ==
    IF ~isIntersecting(mBrick, mBall) THEN [brick |-> mBrick, ball |-> mBall]
    ELSE LET hits == mBrick.requiredHits - 1
             overlapLeft == right(mBall) - left(mBrick)
             overlapRight == right(mBrick) - left(mBall)
             overlapTop == bottom(mBall) - top(mBrick)
             overlapBottom == bottom(mBrick) - top(mBall)
             bFromLeft == Abs(overlapLeft) < Abs(overlapRight)
             bFromTop == Abs(overlapTop) < Abs(overlapBottom)
             minOverlapX == IF bFromLeft THEN overlapLeft ELSE overlapRight
             minOverlapY == IF bFromTop THEN overlapTop ELSE overlapBottom
         IN  [brick |-> [mBrick EXCEPT !.requiredHits = hits,
                                       !.destroyed = (hits <= 0) \/ mBrick.destroyed],
              ball |-> IF Abs(minOverlapX) <= Abs(minOverlapY)
                       THEN [mBall EXCEPT !.vx = Abs(mBall.vx) *
                                              (IF bFromLeft THEN -1 ELSE 1)]
                       ELSE [mBall EXCEPT !.vy = Abs(mBall.vy) *
                                              (IF bFromTop THEN -1 ELSE 1)]]

\* A brick resolver that destroys the brick at any collision.
solveBrickBallCollision_Immediate(mBrick, mBall) ==
    IF ~isIntersecting(mBrick, mBall) THEN [brick |-> mBrick, ball |-> mBall]
    ELSE LET overlapLeft == right(mBall) - left(mBrick)
             overlapRight == right(mBrick) - left(mBall)
             overlapTop == bottom(mBall) - top(mBrick)
             overlapBottom == bottom(mBrick) - top(mBall)
             bFromLeft == Abs(overlapLeft) < Abs(overlapRight)
             bFromTop == Abs(overlapTop) < Abs(overlapBottom)
             minOverlapX == IF bFromLeft THEN overlapLeft ELSE overlapRight
             minOverlapY == IF bFromTop THEN overlapTop ELSE overlapBottom
         IN  [brick |-> [mBrick EXCEPT !.requiredHits = mBrick.requiredHits - 1,
                                       !.destroyed = TRUE],
              ball |-> IF Abs(minOverlapX) < Abs(minOverlapY)
                       THEN [mBall EXCEPT !.vx = Abs(mBall.vx) *
                                              (IF bFromLeft THEN -1 ELSE 1)]
                       ELSE [mBall EXCEPT !.vy = Abs(mBall.vy) *
                                              (IF bFromTop THEN -1 ELSE 1)]]

\* solveBrickBallCollision: the brick and the ball it leaves.
solveBrickBallCollision(mBrick, mBall) ==
    IF ~isIntersecting(mBrick, mBall) THEN [brick |-> mBrick, ball |-> mBall]
    ELSE LET hits == mBrick.requiredHits - 1
             brick == [mBrick EXCEPT !.requiredHits = hits,
                                     !.destroyed = (hits <= 0) \/ mBrick.destroyed]
             overlapLeft == right(mBall) - left(mBrick)
             overlapRight == right(mBrick) - left(mBall)
             overlapTop == bottom(mBall) - top(mBrick)
             overlapBottom == bottom(mBrick) - top(mBall)
             bFromLeft == Abs(overlapLeft) < Abs(overlapRight)
             bFromTop == Abs(overlapTop) < Abs(overlapBottom)
             minOverlapX == IF bFromLeft THEN overlapLeft ELSE overlapRight
             minOverlapY == IF bFromTop THEN overlapTop ELSE overlapBottom
         IN  [brick |-> brick,
              ball |-> IF Abs(minOverlapX) < Abs(minOverlapY)
                       THEN [mBall EXCEPT !.vx = Abs(mBall.vx) *
                                              (IF bFromLeft THEN -1 ELSE 1)]
                       ELSE [mBall EXCEPT !.vy = Abs(mBall.vy) *
                                              (IF bFromTop THEN -1 ELSE 1)]]

\* manager.forEach<Brick> of Game::run, for the ball at pointer b: the
\* bucket is walked by position, i the next one.  A pointer that refers to
\* no entity is skipped.
RECURSIVE ForEachBrick(_, _, _)
ForEachBrick(m, b, i) ==
    IF i > Len(GetAll(m, "Brick")) THEN m
    ELSE LET ptr == GetAll(m, "Brick")[i]
         IN  IF ~IsLive(m, ptr) \/ ~IsLive(m, b)
             THEN ForEachBrick(m, b, i + 1)
             ELSE LET r == solveBrickBallCollision(Deref(m, ptr), Deref(m, b))
                  IN  ForEachBrick(Store(Store(m, ptr, r.brick), b, r.ball),
                                   b, i + 1)

\* manager.forEach<Paddle> of Game::run, for the ball at pointer b.
RECURSIVE ForEachPaddle(_, _, _)
ForEachPaddle(m, b, i) ==
    IF i > Len(GetAll(m, "Paddle")) THEN m
    ELSE LET ptr == GetAll(m, "Paddle")[i]
         IN  IF ~IsLive(m, ptr) \/ ~IsLive(m, b)
             THEN ForEachPaddle(m, b, i + 1)
             ELSE ForEachPaddle(
                      Store(m, b, solvePaddleBallCollision(Deref(m, ptr), Deref(m, b))),
                      b, i + 1)

\* manager.forEach<Ball> of Game::run.
RECURSIVE ForEachBall(_, _)
ForEachBall(m, i) ==
    IF i > Len(GetAll(m, "Ball")) THEN m
    ELSE ForEachBall(
             ForEachPaddle(ForEachBrick(m, GetAll(m, "Ball")[i], 1),
                           GetAll(m, "Ball")[i], 1),
             i + 1)

\* The collision pass of a frame (p11.cpp lines 452-462).
SolveCollisions(m) == ForEachBall(m, 1)

(***************************************************************************)
(* Game.                                                                   *)
(***************************************************************************)
\* The position Game::restart gives the brick of column iX, row iY.
BrickX(iX) == (brkOffsetX + (iX + brkStartCol) * (BrickDefWidth + brkSpacing)) * Unit

BrickY(iY) == ((iY + brkStartRow) * (BrickDefHeight + brkSpacing)) * Unit

\* A pattern that adds the coordinates instead of multiplying them.
BrickHits_Sum(iX, iY) == 1 + ((iX + iY) % 3)

\* brick.requiredHits of Game::restart.
BrickHits(iX, iY) == 1 + ((iX * iY) % 3)

\* The two loops of Game::restart (iX the outer one, iY the inner one):
\* cols * rows calls of manager.create<Brick>, each followed by the
\* assignment of requiredHits, the j-th call being that of iX = (j-1) div
\* rows, iY = (j-1) mod rows.  The calls append to the heap, to the owning
\* vector and to the bucket of Brick, as ManagerCreate does.
CreateBricks(m, cols, rows) ==
    LET ptrs == [j \in 1..(cols * rows) |-> Len(m.heap) + j]
        k == hashCode["Brick"]
    IN  [entities |-> m.entities \o ptrs,
         groupedEntities |-> WithBucket(m.groupedEntities, k, Bucket(m, k) \o ptrs),
         heap |-> m.heap \o
             [j \in 1..(cols * rows) |->
                 [Brick(BrickX((j - 1) \div rows), BrickY((j - 1) % rows))
                     EXCEPT !.requiredHits = BrickHits((j - 1) \div rows, (j - 1) % rows)]]]

BallStart == Ball((wndWidth * Unit) \div 2, (wndHeight * Unit) \div 2)

PaddleStart == Paddle((wndWidth \div 2) * Unit, (wndHeight - 50) * Unit)

\* A restart that forgets remainingLives = 3 (the lives of a new Game
\* are those of its initialiser, 0).
GameRestart_NoLives(m, cols, rows) ==
    [remainingLives |-> 0,
     state |-> "Paused",
     manager |-> ManagerCreate(
                     ManagerCreate(CreateBricks(ManagerClear(m), cols, rows),
                                   BallStart),
                     PaddleStart)]

\* A restart that forgets manager.clear().
GameRestart_NoClear(m, cols, rows) ==
    [remainingLives |-> StartLives,
     state |-> "Paused",
     manager |-> ManagerCreate(
                     ManagerCreate(CreateBricks(m, cols, rows), BallStart),
                     PaddleStart)]

\* Game::restart, on a grid of cols x rows bricks.
GameRestart(m, cols, rows) ==
    [remainingLives |-> StartLives,
     state |-> "Paused",
     manager |-> ManagerCreate(
                     ManagerCreate(CreateBricks(ManagerClear(m), cols, rows),
                                   BallStart),
                     PaddleStart)]

\* A pause key that resumes from every state but InProgress.
PauseToggle_AnyState(st, lastFrame, keyP) ==
    [state |-> IF keyP /\ ~lastFrame
               THEN (IF st = "InProgress" THEN "Paused" ELSE "InProgress")
               ELSE st,
     pausePressedLastFrame |-> keyP]

\* A pause key that toggles on every frame it is down.
PauseToggle_Level(st, lastFrame, keyP) ==
    [state |-> IF keyP
               THEN (CASE st = "Paused" -> "InProgress"
                       [] st = "InProgress" -> "Paused"
                       [] OTHER -> st)
               ELSE st,
     pausePressedLastFrame |-> keyP]

\* The pause key handling of Game::run (lines 398-409), keyP the key as read.
PauseToggle(st, lastFrame, keyP) ==
    [state |-> IF keyP /\ ~lastFrame
               THEN (CASE st = "Paused" -> "InProgress"
                       [] st = "InProgress" -> "Paused"
                       [] OTHER -> st)
               ELSE st,
     pausePressedLastFrame |-> keyP]

\* Game over only below zero lives.
GameEvaluate_LateGameOver(m, st, lives) ==
    LET noBall == GetAll(m, "Ball") = <<>>
        m1 == IF noBall THEN ManagerCreate(AfterGetAll(m, "Ball"), BallStart)
                        ELSE AfterGetAll(m, "Ball")
        lives1 == IF noBall THEN lives - 1 ELSE lives
        st1 == IF GetAll(m1, "Brick") = <<>> THEN "Victory" ELSE st
        st2 == IF lives1 < 0 THEN "GameOver" ELSE st1
    IN  [manager |-> AfterGetAll(m1, "Brick"), state |-> st2,
         remainingLives |-> lives1]

\* Victory with one brick left.
GameEvaluate_EarlyVictory(m, st, lives) ==
    LET noBall == GetAll(m, "Ball") = <<>>
        m1 == IF noBall THEN ManagerCreate(AfterGetAll(m, "Ball"), BallStart)
                        ELSE AfterGetAll(m, "Ball")
        lives1 == IF noBall THEN lives - 1 ELSE lives
        st1 == IF Len(GetAll(m1, "Brick")) <= 1 THEN "Victory" ELSE st
        st2 == IF lives1 <= 0 THEN "GameOver" ELSE st1
    IN  [manager |-> AfterGetAll(m1, "Brick"), state |-> st2,
         remainingLives |-> lives1]

\* A respawn that costs no life.
GameEvaluate_FreeBall(m, st, lives) ==
    LET noBall == GetAll(m, "Ball") = <<>>
        m1 == IF noBall THEN ManagerCreate(AfterGetAll(m, "Ball"), BallStart)
                        ELSE AfterGetAll(m, "Ball")
        st1 == IF GetAll(m1, "Brick") = <<>> THEN "Victory" ELSE st
        st2 == IF lives <= 0 THEN "GameOver" ELSE st1
    IN  [manager |-> AfterGetAll(m1, "Brick"), state |-> st2,
         remainingLives |-> lives]

\* A life check that finds the balls gone while one is left.
GameEvaluate_SpareBall(m, st, lives) ==
    LET noBall == Len(GetAll(m, "Ball")) <= 1
        m1 == IF noBall THEN ManagerCreate(AfterGetAll(m, "Ball"), BallStart)
                        ELSE AfterGetAll(m, "Ball")
        lives1 == IF noBall THEN lives - 1 ELSE lives
        st1 == IF GetAll(m1, "Brick") = <<>> THEN "Victory" ELSE st
        st2 == IF lives1 <= 0 THEN "GameOver" ELSE st1
    IN  [manager |-> AfterGetAll(m1, "Brick"), state |-> st2,
         remainingLives |-> lives1]

\* The victory check after the game-over check.
GameEvaluate_VictoryLast(m, st, lives) ==
    LET noBall == GetAll(m, "Ball") = <<>>
        m1 == IF noBall THEN ManagerCreate(AfterGetAll(m, "Ball"), BallStart)
                        ELSE AfterGetAll(m, "Ball")
        lives1 == IF noBall THEN lives - 1 ELSE lives
        st1 == IF lives1 <= 0 THEN "GameOver" ELSE st
        st2 == IF GetAll(m1, "Brick") = <<>> THEN "Victory" ELSE st1
    IN  [manager |-> AfterGetAll(m1, "Brick"), state |-> st2,
         remainingLives |-> lives1]

\* The life, victory and game-over checks of Game::run (lines 433-448).
GameEvaluate(m, st, lives) ==
    LET noBall == GetAll(m, "Ball") = <<>>
        m1 == IF noBall THEN ManagerCreate(AfterGetAll(m, "Ball"), BallStart)
                        ELSE AfterGetAll(m, "Ball")
        lives1 == IF noBall THEN lives - 1 ELSE lives
        st1 == IF GetAll(m1, "Brick") = <<>> THEN "Victory" ELSE st
        st2 == IF lives1 <= 0 THEN "GameOver" ELSE st1
    IN  [manager |-> AfterGetAll(m1, "Brick"), state |-> st2,
         remainingLives |-> lives1]

(***************************************************************************)
(* The program: main constructs the Game, calls restart and then run.      *)
(* A frame of run is the sequence of steps                                 *)
(*   top -> restart -> check -> (top | update -> collide -> refresh ->     *)
(*   draw -> top).                                                         *)
(***************************************************************************)
\* The grids explored: the reduced one and the one of the source.
Levels == {<<SmallCols, SmallRows>>, <<brkCountX, brkCountY>>}

\* typeid(T).hash_code() of the build: distinct keys for the three types.
TypeHash == [T \in Types |-> CASE T = "Ball" -> 1 [] T = "Paddle" -> 2 [] OTHER -> 3]

\* History of the current frame; the transient fields are reset when the
\* frame leaves the step they describe.
\*   keyP      the pause key as the last frame that read it found it
\*   prevP     the pause key of the frame before (from the read to the branch)
\*   keyR      the restart key of this frame (until the branch)
\*   from, had the state and the number of entities restart() was called with
\*   spawned   the life check of this frame created a ball
\*   purged    the number of entities the last refresh() erased
\*   ballsLost the balls refresh() erased since the last restart
\*   op        the last operation of the registry specification
\*   hits      per pointer, the brick-ball collisions resolved against the
\*             brick it refers to since the last restart
\*   bounced   the paddle-ball collisions the last collision pass resolved
NoObs == [keyP |-> FALSE, prevP |-> FALSE, keyR |-> FALSE, from |-> "none",
          had |-> 0, purged |-> 0, ballsLost |-> 0, spawned |-> FALSE,
          op |-> "none", hits |-> <<>>, bounced |-> 0]

\* The frame's transient history, cleared.
Cleared(o) == [o EXCEPT !.prevP = FALSE, !.keyR = FALSE, !.from = "none",
                        !.had = 0, !.purged = 0, !.spawned = FALSE]

\* Game::Game() (the member initialisers, lines 325-337).
Init ==
    /\ manager = EmptyManager
    /\ state = "GameOver"
    /\ remainingLives = 0
    /\ pausePressedLastFrame = FALSE
    /\ pc = "main"
    /\ hashCode = TypeHash
    /\ level \in Levels
    /\ frames = 0
    /\ obs = NoObs

\* main: game.restart(), then game.run().
MainRestart ==
    /\ pc = "main"
    /\ LET r == GameRestart(manager, level[1], level[2])
       IN  /\ manager' = r.manager
           /\ state' = r.state
           /\ remainingLives' = r.remainingLives
    /\ obs' = [obs EXCEPT !.from = state, !.had = Len(manager.entities)]
    /\ pc' = "top"
    /\ UNCHANGED <<pausePressedLastFrame, hashCode, level, frames>>

\* A loop that tests Escape after the pause key is handled.
Quit_AfterPause ==
    /\ pc = "top"
    /\ \E keyP \in BOOLEAN :
          LET r == PauseToggle(state, pausePressedLastFrame, keyP)
          IN  /\ state' = r.state
              /\ pausePressedLastFrame' = r.pausePressedLastFrame
    /\ pc' = "done"
    /\ UNCHANGED <<manager, remainingLives, hashCode, level, frames, obs>>

\* Escape is down: the loop breaks.
Quit ==
    /\ pc = "top"
    /\ pc' = "done"
    /\ UNCHANGED <<manager, state, remainingLives, pausePressedLastFrame,
                   hashCode, level, frames, obs>>

\* Escape is not down; the pause key is read and handled.
PauseInput ==
    /\ pc = "top"
    /\ \E keyP \in BOOLEAN :
          LET r == PauseToggle(state, pausePressedLastFrame, keyP)
          IN  /\ state' = r.state
              /\ pausePressedLastFrame' = r.pausePressedLastFrame
              /\ obs' = [Cleared(obs) EXCEPT !.keyP = keyP, !.prevP = obs.keyP]
    /\ pc' = "restart"
    /\ UNCHANGED <<manager, remainingLives, hashCode, level, frames>>

\* A loop that tests the restart key before it handles the pause key.
RestartInput_BeforeToggle ==
    /\ pc = "restart"
    /\ \E keyR \in BOOLEAN :
          IF keyR
          THEN LET r == GameRestart(manager, level[1], level[2])
               IN  /\ manager' = r.manager
                   /\ state' = PauseToggle(r.state, obs.prevP, obs.keyP).state
                   /\ remainingLives' = r.remainingLives
                   /\ frames' = 0
                   /\ obs' = [obs EXCEPT !.keyR = TRUE, !.from = state,
                                         !.had = Len(manager.entities),
                                         !.ballsLost = 0, !.hits = <<>>,
                                         !.bounced = 0]
          ELSE /\ UNCHANGED <<manager, state, remainingLives, frames>>
               /\ obs' = [obs EXCEPT !.keyR = FALSE, !.from = "none"]
    /\ pc' = "check"
    /\ UNCHANGED <<pausePressedLastFrame, hashCode, level>>

\* The restart key is read; restart() runs when it is down.
RestartInput ==
    /\ pc = "restart"
    /\ \E keyR \in BOOLEAN :
          IF keyR
          THEN LET r == GameRestart(manager, level[1], level[2])
               IN  /\ manager' = r.manager
                   /\ state' = r.state
                   /\ remainingLives' = r.remainingLives
                   /\ frames' = 0
                   /\ obs' = [obs EXCEPT !.keyR = TRUE, !.from = state,
                                         !.had = Len(manager.entities),
                                         !.ballsLost = 0, !.hits = <<>>,
                                         !.bounced = 0]
          ELSE /\ UNCHANGED <<manager, state, remainingLives, frames>>
               /\ obs' = [obs EXCEPT !.keyR = FALSE, !.from = "none"]
    /\ pc' = "check"
    /\ UNCHANGED <<pausePressedLastFrame, hashCode, level>>

\* A frame that shows the status label and goes on to simulate, the move
\* keys up.
ShowState_Simulating ==
    /\ pc = "check"
    /\ state # "InProgress"
    /\ pc' = "top"
    /\ manager' = ManagerRefresh(SolveCollisions(ManagerUpdate(manager, FALSE, FALSE)))
    /\ obs' = Cleared(obs)
    /\ UNCHANGED <<state, remainingLives, pausePressedLastFrame,
                   hashCode, level, frames>>

\* state != InProgress: the status label is drawn and the frame ends.
ShowState ==
    /\ pc = "check"
    /\ state # "InProgress"
    /\ pc' = "top"
    /\ obs' = Cleared(obs)
    /\ UNCHANGED <<manager, state, remainingLives, pausePressedLastFrame,
                   hashCode, level, frames>>

\* state == InProgress: the life, victory and game-over checks.
Evaluate ==
    /\ pc = "check"
    /\ state = "InProgress"
    /\ frames < MaxFrames
    /\ LET r == GameEvaluate(manager, state, remainingLives)
       IN  /\ manager' = r.manager
           /\ state' = r.state
           /\ remainingLives' = r.remainingLives
           /\ obs' = [Cleared(obs) EXCEPT
                         !.spawned = Len(r.manager.entities) > Len(manager.entities)]
    /\ frames' = frames + 1
    /\ pc' = "update"
    /\ UNCHANGED <<pausePressedLastFrame, hashCode, level>>

PaddleStartX == (wndWidth \div 2) * Unit

\* The move keys the model draws: a move that would take a paddle further
\* than PaddleRange steps from its start position is not drawn.
KeysDrawn(m, keyLeft, keyRight) ==
    \A i \in DOMAIN GetAll(m, "Paddle") :
        LET p == Deref(m, GetAll(m, "Paddle")[i])
        IN  /\ keyLeft => p.x > PaddleStartX - PaddleRange * PaddleDefVelocity * Unit
            /\ keyRight => p.x < PaddleStartX + PaddleRange * PaddleDefVelocity * Unit

\* manager.update()
Update ==
    /\ pc = "update"
    /\ \E keyLeft, keyRight \in BOOLEAN :
          /\ KeysDrawn(manager, keyLeft, keyRight)
          /\ manager' = ManagerUpdate(manager, keyLeft, keyRight)
    /\ pc' = "collide"
    /\ obs' = Cleared(obs)
    /\ UNCHANGED <<state, remainingLives, pausePressedLastFrame, hashCode,
                   level, frames>>

\* The pointers of a bucket that refer to an entity.
LivePtrs(m, T) ==
    {p \in {GetAll(m, T)[i] : i \in DOMAIN GetAll(m, T)} : IsLive(m, p)}

\* The calls of solveBrickBallCollision the collision pass is about to
\* resolve against the brick at pointer p: one for every ball that
\* intersects it (no resolver moves a brick, and a ball is moved only by
\* the paddle resolver, after its bricks).
BrickHitsNow(m, p) ==
    IF p \in LivePtrs(m, "Brick")
    THEN Cardinality({b \in LivePtrs(m, "Ball") :
                         isIntersecting(Deref(m, p), Deref(m, b))})
    ELSE 0

HitsOf(o, p) == IF p \in DOMAIN o.hits THEN o.hits[p] ELSE 0

HitsAfter(o, m) == [p \in DOMAIN m.heap |-> HitsOf(o, p) + BrickHitsNow(m, p)]

\* The calls of solvePaddleBallCollision the collision pass is about to
\* resolve.
PaddleHitsNow(m) ==
    Cardinality({pb \in LivePtrs(m, "Paddle") \X LivePtrs(m, "Ball") :
                    isIntersecting(Deref(m, pb[1]), Deref(m, pb[2]))})

\* The collision pass.
Collide ==
    /\ pc = "collide"
    /\ manager' = SolveCollisions(manager)
    /\ pc' = "refresh"
    /\ obs' = [obs EXCEPT !.hits = HitsAfter(obs, manager),
                          !.bounced = PaddleHitsNow(manager)]
    /\ UNCHANGED <<state, remainingLives, pausePressedLastFrame, hashCode,
                   level, frames>>

\* The balls among the entities refresh is about to purge.
DoomedBalls(m) ==
    Cardinality({p \in Owned(m) : Deref(m, p).type = "Ball" /\ Deref(m, p).destroyed})

\* manager.refresh()
Refresh ==
    /\ pc = "refresh"
    /\ manager' = ManagerRefresh(manager)
    /\ pc' = "draw"
    /\ obs' = [obs EXCEPT
                  !.purged = Len(manager.entities) - Len(manager'.entities),
                  !.ballsLost = obs.ballsLost + DoomedBalls(manager)]
    /\ UNCHANGED <<state, remainingLives, pausePressedLastFrame, hashCode,
                   level, frames>>

\* manager.draw(window), the lives label and window.display().
Draw ==
    /\ pc = "draw"
    /\ pc' = "top"
    /\ obs' = Cleared(obs)
    /\ UNCHANGED <<manager, state, remainingLives, pausePressedLastFrame,
                   hashCode, level, frames>>

Next ==
    \/ MainRestart
    \/ Quit
    \/ PauseInput
    \/ RestartInput
    \/ ShowState
    \/ Evaluate
    \/ Update
    \/ Collide
    \/ Refresh
    \/ Draw

Spec == Init /\ [][Next]_vars

(***************************************************************************)
(* The registry on its own: any sequence of the Manager's operations and   *)
(* of writes of an entity's destroyed flag, for every assignment of hash   *)
(* keys to the three types (typeid(T).hash_code() promises no distinct     *)
(* keys).                                                                  *)
(***************************************************************************)
HashKeys == 1..Cardinality(Types)

\* The object create<T> constructs in this specification.
Construct(T) ==
    CASE T = "Ball" -> BallStart
      [] T = "Paddle" -> PaddleStart
      [] OTHER -> Brick(BrickX(0), BrickY(0))

MgrInit ==
    /\ manager = EmptyManager
    /\ state = "GameOver"
    /\ remainingLives = 0
    /\ pausePressedLastFrame = FALSE
    /\ pc = "manager"
    /\ hashCode \in [Types -> HashKeys]
    /\ level = <<brkCountX, brkCountY>>
    /\ frames = 0
    /\ obs = NoObs

MgrUnchanged ==
    UNCHANGED <<state, remainingLives, pausePressedLastFrame, pc, hashCode,
                level, frames>>

\* manager.create<T>(...)
MgrCreate ==
    /\ pc = "manager"
    /\ Len(manager.heap) < MaxObjects
    /\ \E T \in Types : manager' = ManagerCreate(manager, Construct(T))
    /\ obs' = [obs EXCEPT !.op = "create", !.purged = 0]
    /\ MgrUnchanged

\* entity.destroyed = true, on an entity the manager owns.
MgrMark ==
    /\ pc = "manager"
    /\ \E p \in Owned(manager) :
          /\ ~Deref(manager, p).destroyed
          /\ manager' = Store(manager, p, [Deref(manager, p) EXCEPT !.destroyed = TRUE])
    /\ obs' = [obs EXCEPT !.op = "mark", !.purged = 0]
    /\ MgrUnchanged

\* manager.refresh()
MgrRefresh ==
    /\ pc = "manager"
    /\ manager' = ManagerRefresh(manager)
    /\ obs' = [obs EXCEPT !.op = "refresh",
                          !.purged = Len(manager.entities) - Len(manager'.entities)]
    /\ MgrUnchanged

\* manager.clear()
MgrClear ==
    /\ pc = "manager"
    /\ manager' = ManagerClear(manager)
    /\ obs' = [obs EXCEPT !.op = "clear", !.purged = 0]
    /\ MgrUnchanged

\* manager.getAll<T>(), or a forEach<T> whose function changes nothing.
MgrGetAll ==
    /\ pc = "manager"
    /\ \E T \in Types : manager' = AfterGetAll(manager, T)
    /\ obs' = [obs EXCEPT !.op = "getAll", !.purged = 0]
    /\ MgrUnchanged

MgrNext ==
    \/ MgrCreate
    \/ MgrMark
    \/ MgrRefresh
    \/ MgrClear
    \/ MgrGetAll

SpecMgr == MgrInit /\ [][MgrNext]_vars

(***************************************************************************)
(* The entities on their own: the body of a frame (manager.update(), the   *)
(* collision pass and manager.refresh(), lines 450-464) run on a registry  *)
(* that holds a paddle, a ball, a ball and a paddle, or a brick and a      *)
(* ball, the ball drawn from positions around the other entity.            *)
(***************************************************************************)
\* Frames run on a registry of two entities.
MaxPhysFrames == 2
\* Frames run on a registry of one entity: the paddle reaches either end
\* of the field from its start position.
MaxWalk == 47
\* Columns of ball positions drawn on each side of the paddle's centre.
PairSpan == 7
\* Columns and rows of ball positions drawn on each side of a brick's
\* centre.
BrickSpanX == 11
BrickSpanY == 6

\* The distance of two positions of a ball on its way: a step of the ball
\* of restart, and half of it around a brick.
BallStep == BallDefVelocity * Unit
HalfStep == BallStep \div 2

WithVelocity(b, v) == [b EXCEPT !.vx = v[1], !.vy = v[2]]

\* The velocities of the ball of restart: walls and bricks change the
\* signs of (-8, -8).
Diagonals ==
    {<<sx * BallStep, sy * BallStep>> : sx \in {-1, 1}, sy \in {-1, 1}}

\* The vertical component of a velocity that has the length of (8, 8), as
\* paddle reflection keeps it, and the horizontal component vx.
Fall(vx) ==
    CHOOSE r \in 0..(12 * Unit) :
        /\ r * r <= 2 * BallStep * BallStep - vx * vx
        /\ 2 * BallStep * BallStep - vx * vx < (r + 1) * (r + 1)

\* Velocities of a ball on its way down to the paddle.
DownVelocities == {<<vx * Unit, Fall(vx * Unit)>> : vx \in {-11, -8, 0, 8, 11}}

\* A ball alone: at the start position and one step above the bottom
\* bound, in the middle and next to either side bound.
WallBalls ==
    {WithVelocity(Ball(x * Unit, y * Unit), v) :
        x \in {16, 400, 784}, y \in {300, 588}, v \in Diagonals}

\* A ball above and beside the paddle of restart, on its way down.
PairBalls ==
    {WithVelocity(Ball(PaddleStart.x + c * BallStep, y * Unit), v) :
        c \in (-PairSpan)..PairSpan, y \in {516, 524, 532, 540},
        v \in DownVelocities}

\* The brick restart creates for cell (iX, iY) (lines 372-382).
GridBrick(iX, iY) ==
    [Brick(BrickX(iX), BrickY(iY)) EXCEPT !.requiredHits = BrickHits(iX, iY)]

\* Bricks of 1, 2 and 3 hits.
BenchBricks == {GridBrick(0, 0), GridBrick(2, 2), GridBrick(1, 2)}

\* A ball around a brick.
BrickBalls(k) ==
    {WithVelocity(Ball(k.x + dx * HalfStep, k.y + dy * HalfStep), v) :
        dx \in (-BrickSpanX)..BrickSpanX, dy \in (-BrickSpanY)..BrickSpanY,
        v \in Diagonals}

\* The registries the frames are run on, the entities created in the
\* order of restart: brick, ball, paddle.
PhysInputs ==
    {ManagerCreate(EmptyManager, PaddleStart)}
    \cup {ManagerCreate(EmptyManager, b) : b \in WallBalls}
    \cup {ManagerCreate(ManagerCreate(EmptyManager, b), PaddleStart) :
              b \in PairBalls}
    \cup UNION {{ManagerCreate(ManagerCreate(EmptyManager, k), b) :
                    b \in BrickBalls(k)} : k \in BenchBricks}

PhysInit ==
    /\ hashCode = TypeHash
    /\ manager \in PhysInputs
    /\ state = "InProgress"
    /\ remainingLives = StartLives
    /\ pausePressedLastFrame = FALSE
    /\ pc = "phys_update"
    /\ level = <<brkCountX, brkCountY>>
    /\ frames = 0
    /\ obs = NoObs

PhysUnchanged ==
    UNCHANGED <<state, remainingLives, pausePressedLastFrame, hashCode, level>>

\* The frames run on a registry.
FrameCap(m) == IF Len(m.entities) > 1 THEN MaxPhysFrames ELSE MaxWalk

\* manager.update()
PhysUpdate ==
    /\ pc = "phys_update"
    /\ manager.entities # <<>>
    /\ frames < FrameCap(manager)
    /\ \E keyLeft, keyRight \in BOOLEAN :
          manager' = ManagerUpdate(manager, keyLeft, keyRight)
    /\ pc' = "phys_collide"
    /\ frames' = frames + 1
    /\ UNCHANGED obs
    /\ PhysUnchanged

\* The collision pass.
PhysCollide ==
    /\ pc = "phys_collide"
    /\ manager' = SolveCollisions(manager)
    /\ pc' = "phys_refresh"
    /\ obs' = [obs EXCEPT !.hits = HitsAfter(obs, manager),
                          !.bounced = PaddleHitsNow(manager)]
    /\ UNCHANGED frames
    /\ PhysUnchanged

\* manager.refresh()
PhysRefresh ==
    /\ pc = "phys_refresh"
    /\ manager' = ManagerRefresh(manager)
    /\ pc' = "phys_update"
    /\ obs' = [obs EXCEPT
                  !.purged = Len(manager.entities) - Len(manager'.entities)]
    /\ UNCHANGED frames
    /\ PhysUnchanged

PhysNext ==
    \/ PhysUpdate
    \/ PhysCollide
    \/ PhysRefresh

SpecPhys == PhysInit /\ [][PhysNext]_vars

(***************************************************************************)
(* One frame of Game::run from the life check on (lines 433-476), run on   *)
(* registries drawn in Init: no brick or one, no ball or one, and the      *)
(* paddle, created in the order of restart, with one to three lives left.  *)
(* The steps are those of the game loop.                                   *)
(***************************************************************************)
\* The registries and lives the frame is run on.
FrameBricks == {EmptyManager, ManagerCreate(EmptyManager, GridBrick(0, 0))}

FrameBalls ==
    FrameBricks \cup {ManagerCreate(m, b) : m \in FrameBricks, b \in WallBalls}

FrameInputs == {ManagerCreate(m, PaddleStart) : m \in FrameBalls}

FrameInit ==
    /\ hashCode = TypeHash
    /\ manager \in FrameInputs
    /\ state = "InProgress"
    /\ remainingLives \in 1..StartLives
    /\ pausePressedLastFrame = FALSE
    /\ pc = "check"
    /\ level = <<brkCountX, brkCountY>>
    /\ frames = 0
    /\ obs = NoObs

FrameNext ==
    \/ Evaluate
    \/ Update
    \/ Collide
    \/ Refresh
    \/ Draw

SpecFrame == FrameInit /\ [][FrameNext]_vars

(***************************************************************************)
(* The Game of p09.cpp, before the Manager: the game objects are the       *)
(* members ball, paddle and bricks of Game, and a State is Paused or       *)
(* InProgress.  In this specification the variable `manager` holds these   *)
(* three members as a record, `remainingLives`, `hashCode` and `level` are *)
(* not used, and pc is the position in main and in the loop of Game::run   *)
(* (p09_main -> p09_top -> p09_restart -> p09_check -> p09_draw ->         *)
(* p09_top, or p09_top -> p09_done).                                       *)
(***************************************************************************)
\* Simulated frames explored.
MaxP09Frames == 24
\* The restart key is drawn while the bricks vector holds fewer bricks
\* than this many grids.
MaxRestarts == 2

\* Ball::solveBoundCollisions of p09: the ball bounces off the four bounds.
P09_solveBoundCollisions(b) ==
    LET b1 == IF left(b) < 0 \/ right(b) > wndWidth * Unit
              THEN [b EXCEPT !.vx = -b.vx] ELSE b
    IN  IF top(b1) < 0 \/ bottom(b1) > wndHeight * Unit
        THEN [b1 EXCEPT !.vy = -b1.vy] ELSE b1

\* Ball::update of p09.
P09_BallUpdate(b) ==
    P09_solveBoundCollisions([b EXCEPT !.x = b.x + b.vx, !.y = b.y + b.vy])

\* solveBrickBallCollision of p09: the brick is destroyed at once.
P09_solveBrickBallCollision(mBrick, mBall) ==
    IF ~isIntersecting(mBrick, mBall) THEN [brick |-> mBrick, ball |-> mBall]
    ELSE LET overlapLeft == right(mBall) - left(mBrick)
             overlapRight == right(mBrick) - left(mBall)
             overlapTop == bottom(mBall) - top(mBrick)
             overlapBottom == bottom(mBrick) - top(mBall)
             bFromLeft == Abs(overlapLeft) < Abs(overlapRight)
             bFromTop == Abs(overlapTop) < Abs(overlapBottom)
             minOverlapX == IF bFromLeft THEN overlapLeft ELSE overlapRight
             minOverlapY == IF bFromTop THEN overlapTop ELSE overlapBottom
         IN  [brick |-> [mBrick EXCEPT !.destroyed = TRUE],
              ball |->
                  IF Abs(minOverlapX) < Abs(minOverlapY)
                  THEN [mBall EXCEPT
                           !.vx = IF bFromLeft THEN -Abs(mBall.vx) ELSE Abs(mBall.vx)]
                  ELSE [mBall EXCEPT
                           !.vy = IF bFromTop THEN -Abs(mBall.vy) ELSE Abs(mBall.vy)]]

\* The members of a Game of p09 as constructed (lines 227-229).
P09_Game == [ball |-> BallStart, paddle |-> PaddleStart, bricks |-> <<>>]

\* The bricks the two loops of Game::restart of p09 emplace, in order.
P09_Grid ==
    [j \in 1..(brkCountX * brkCountY) |->
        Brick(BrickX((j - 1) \div brkCountY), BrickY((j - 1) % brkCountY))]

\* Game::restart of p09: the bricks are emplaced at the back of the vector
\* as it is, the ball and the paddle are assigned anew.
P09_Restart(g) ==
    [state |-> "Paused",
     game |-> [ball |-> BallStart, paddle |-> PaddleStart,
               bricks |-> g.bricks \o P09_Grid]]

\* The pause key of Game::run of p09 (lines 272-287).
P09_PauseToggle(st, lastFrame, keyP) ==
    [state |-> IF keyP /\ ~lastFrame
               THEN (IF st = "Paused" THEN "InProgress" ELSE "Paused")
               ELSE st,
     pausePressedLastFrame |-> keyP]

\* The loop over the bricks of Game::run of p09 (lines 298-302), i the
\* position of the next brick.
RECURSIVE P09_ForEachBrick(_, _)
P09_ForEachBrick(g, i) ==
    IF i > Len(g.bricks) THEN g
    ELSE LET r == P09_solveBrickBallCollision(g.bricks[i], g.ball)
         IN  P09_ForEachBrick([g EXCEPT !.bricks[i] = r.brick, !.ball = r.ball],
                              i + 1)

\* The body of a frame that is not paused (lines 294-313).
P09_Simulate(g, keyLeft, keyRight) ==
    LET g1 == [g EXCEPT !.ball = P09_BallUpdate(g.ball),
                        !.paddle = PaddleUpdate(g.paddle, keyLeft, keyRight)]
        g2 == P09_ForEachBrick(g1, 1)
        g3 == [g2 EXCEPT !.bricks = SelectSeq(g2.bricks, LAMBDA k : ~k.destroyed)]
    IN  [g3 EXCEPT !.ball = solvePaddleBallCollision(g3.paddle, g3.ball)]

P09Init ==
    /\ manager = P09_Game
    /\ state = "InProgress"
    /\ remainingLives = 0
    /\ pausePressedLastFrame = FALSE
    /\ pc = "p09_main"
    /\ hashCode = TypeHash
    /\ level = <<brkCountX, brkCountY>>
    /\ frames = 0
    /\ obs = NoObs

P09Unchanged == UNCHANGED <<remainingLives, hashCode, level>>

\* main: game.restart(), then game.run().
P09MainRestart ==
    /\ pc = "p09_main"
    /\ LET r == P09_Restart(manager)
       IN  manager' = r.game /\ state' = r.state
    /\ obs' = [obs EXCEPT !.op = "restart"]
    /\ pc' = "p09_top"
    /\ UNCHANGED <<pausePressedLastFrame, frames>>
    /\ P09Unchanged

\* Escape is down: the loop breaks.
P09Quit ==
    /\ pc = "p09_top"
    /\ pc' = "p09_done"
    /\ UNCHANGED <<manager, state, pausePressedLastFrame, frames, obs>>
    /\ P09Unchanged

\* Escape is not down; the pause key is read and handled.
P09PauseInput ==
    /\ pc = "p09_top"
    /\ \E keyP \in BOOLEAN :
          LET r == P09_PauseToggle(state, pausePressedLastFrame, keyP)
          IN  /\ state' = r.state
              /\ pausePressedLastFrame' = r.pausePressedLastFrame
    /\ obs' = [obs EXCEPT !.op = "none"]
    /\ pc' = "p09_restart"
    /\ UNCHANGED <<manager, frames>>
    /\ P09Unchanged

\* The restart key is read; restart() runs when it is down.
P09RestartInput ==
    /\ pc = "p09_restart"
    /\ \E keyR \in BOOLEAN :
          IF keyR
          THEN /\ Len(manager.bricks) < MaxRestarts * brkCountX * brkCountY
               /\ LET r == P09_Restart(manager)
                  IN  manager' = r.game /\ state' = r.state
               /\ obs' = [obs EXCEPT !.op = "restart"]
          ELSE /\ UNCHANGED <<manager, state>>
               /\ obs' = [obs EXCEPT !.op = "none"]
    /\ pc' = "p09_check"
    /\ UNCHANGED <<pausePressedLastFrame, frames>>
    /\ P09Unchanged

\* state == Paused: the game objects are not updated.
P09Idle ==
    /\ pc = "p09_check"
    /\ state = "Paused"
    /\ pc' = "p09_draw"
    /\ obs' = [obs EXCEPT !.op = "none"]
    /\ UNCHANGED <<manager, state, pausePressedLastFrame, frames>>
    /\ P09Unchanged

\* state != Paused: updates, brick collisions, erase, paddle collision.
\* The move keys are drawn as in the game loop of p11.
P09Frame ==
    /\ pc = "p09_check"
    /\ state # "Paused"
    /\ frames < MaxP09Frames
    /\ \E keyLeft, keyRight \in BOOLEAN :
          /\ keyLeft => manager.paddle.x
                            > PaddleStartX - PaddleRange * PaddleDefVelocity * Unit
          /\ keyRight => manager.paddle.x
                             < PaddleStartX + PaddleRange * PaddleDefVelocity * Unit
          /\ manager' = P09_Simulate(manager, keyLeft, keyRight)
    /\ frames' = frames + 1
    /\ pc' = "p09_draw"
    /\ obs' = [obs EXCEPT !.op = "none"]
    /\ UNCHANGED <<state, pausePressedLastFrame>>
    /\ P09Unchanged

\* The draw calls and window.display().
P09Draw ==
    /\ pc = "p09_draw"
    /\ pc' = "p09_top"
    /\ UNCHANGED <<manager, state, pausePressedLastFrame, frames, obs>>
    /\ P09Unchanged

P09Next ==
    \/ P09MainRestart
    \/ P09Quit
    \/ P09PauseInput
    \/ P09RestartInput
    \/ P09Idle
    \/ P09Frame
    \/ P09Draw

SpecP09 == P09Init /\ [][P09Next]_vars

(***************************************************************************)
(* Claims.                                                                 *)
(***************************************************************************)
\* The pointers stored in the buckets of m.
BucketPtrs(m) ==
    UNION {{m.groupedEntities[k][i] : i \in DOMAIN m.groupedEntities[k]} :
              k \in DOMAIN m.groupedEntities}

\* C1: destruction deferral.  A write of an entity's destroyed flag changes
\* neither the owning vector nor any bucket; and right after refresh()
\* neither the owning vector nor any bucket holds a pointer to an entity
\* whose flag was set, nor to one whose flag is set.
C1_DestructionDeferral ==
    [][/\ obs'.op = "mark" =>
              /\ manager'.entities = manager.entities
              /\ manager'.groupedEntities = manager.groupedEntities
       /\ obs'.op = "refresh" =>
              \A p \in Owned(manager') \cup BucketPtrs(manager') :
                  /\ ~PtrDestroyed(manager, p)
                  /\ ~PtrDestroyed(manager', p)]_vars

\* C1 witness: a refresh has purged a marked entity and left another one.
C1_Witness ==
    /\ pc = "manager"
    /\ obs.op = "refresh"
    /\ obs.purged > 0
    /\ manager.entities # <<>>

\* C2: index invariant.  Every pointer stored in a bucket is owned by the
\* owning vector and refers to an object that was not deleted.
C2_IndexInvariant ==
    \A p \in BucketPtrs(manager) : p \in Owned(manager) /\ IsLive(manager, p)

\* C2 witness: a refresh has purged entities and pointers stay in the
\* buckets; one of the entities left is marked destroyed again.
C2_Witness ==
    /\ pc = "manager"
    /\ obs.op = "mark"
    /\ \E p \in BucketPtrs(manager) : ~PtrDestroyed(manager, p)
    /\ \E p \in DOMAIN manager.heap : manager.heap[p] = Freed

\* The grid of the source.
SourceLevel == level = <<brkCountX, brkCountY>>

\* restart() ran in the step that led here.
AfterRestart == obs.from # "none"

\* The objects the pointers of a bucket refer to.
Objects(m, T) == [i \in DOMAIN GetAll(m, T) |-> Deref(m, GetAll(m, T)[i])]

\* C3: simulation advances only in InProgress.  Whenever manager.update()
\* or the collision pass is about to run, state is InProgress.
C3_SimulationOnlyInProgress ==
    (SourceLevel /\ pc \in {"update", "collide"}) => state = "InProgress"

\* C4: in every frame refresh() runs after the destruction decisions and
\* before draw().  The destroyed flag of an entity is set only by
\* manager.update() and by the collision pass, and no entity handed to
\* draw() is destroyed.
C4_NoDestroyedDrawn ==
    /\ [](pc = "draw" => \A p \in Owned(manager) : ~PtrDestroyed(manager, p))
    /\ [][(\E p \in DOMAIN manager'.heap :
              /\ PtrDestroyed(manager', p)
              /\ ~PtrDestroyed(manager, p))
          => pc \in {"update", "collide"}]_vars

\* C4 witness: draw() is about to run in a frame whose refresh() purged.
C4_Witness == pc = "draw" /\ obs.purged > 0 /\ SourceLevel

\* C5: restart, from any state, leaves Paused, three lives and a registry
\* of fresh entities only: the brick grid, one ball at the field centre and
\* one paddle at (400, 550), none destroyed, and no object of before.
C5_RestartResets ==
    AfterRestart =>
        /\ state = "Paused"
        /\ remainingLives = 3
        /\ Len(manager.entities) = level[1] * level[2] + 2
        /\ Len(manager.heap) = Len(manager.entities)
        /\ Owned(manager) = DOMAIN manager.heap
        /\ BucketPtrs(manager) = Owned(manager)
        /\ \A p \in Owned(manager) : IsLive(manager, p) /\ ~PtrDestroyed(manager, p)
        /\ Len(GetAll(manager, "Brick")) = level[1] * level[2]
        /\ \A i \in DOMAIN Objects(manager, "Brick") :
               Objects(manager, "Brick")[i].type = "Brick"
        /\ Objects(manager, "Ball") =
               <<[type |-> "Ball", x |-> 400 * Unit, y |-> 300 * Unit,
                  vx |-> -8 * Unit, vy |-> -8 * Unit, requiredHits |-> 0,
                  destroyed |-> FALSE]>>
        /\ Objects(manager, "Paddle") =
               <<[type |-> "Paddle", x |-> 400 * Unit, y |-> 550 * Unit,
                  vx |-> 0, vy |-> 0, requiredHits |-> 0, destroyed |-> FALSE]>>

\* C5 witness: restart was called in GameOver, on the registry a lost game
\* leaves.
C5_Witness ==
    /\ AfterRestart
    /\ pc = "check"
    /\ obs.from = "GameOver"
    /\ obs.had > 0

\* C6: after every restart the Brick bucket holds one brick per grid cell,
\* 44 on the grid of the source, and the brick of cell (iX, iY) requires
\* 1 + ((iX * iY) % 3) hits, a number in 1..3.
C6_BrickGrid ==
    AfterRestart =>
        /\ Len(GetAll(manager, "Brick")) = level[1] * level[2]
        /\ SourceLevel => /\ Len(GetAll(manager, "Brick")) = 44
                          /\ level = <<11, 4>>
        /\ \A iX \in 0..(level[1] - 1), iY \in 0..(level[2] - 1) :
               \E i \in DOMAIN Objects(manager, "Brick") :
                   /\ Objects(manager, "Brick")[i].x = BrickX(iX)
                   /\ Objects(manager, "Brick")[i].y = BrickY(iY)
                   /\ Objects(manager, "Brick")[i].requiredHits = 1 + ((iX * iY) % 3)
                   /\ Objects(manager, "Brick")[i].requiredHits \in {1, 2, 3}
                   /\ \A j \in DOMAIN Objects(manager, "Brick") :
                          (/\ Objects(manager, "Brick")[j].x = BrickX(iX)
                           /\ Objects(manager, "Brick")[j].y = BrickY(iY)) => j = i

\* C6 witness: a restart in the middle of play, after bricks were lost, on
\* the grid of the source.
C6_Witness ==
    /\ AfterRestart
    /\ SourceLevel
    /\ obs.from = "InProgress"
    /\ obs.had > 0
    /\ obs.had < 44

\* C7: lives and game over.  After restart there are 3 lives; every ball
\* refresh() erased costs one life at the next life check and the ball of
\* restart costs none; the life check that follows the third loss makes the
\* state GameOver, and the state is GameOver only with no life left.
C7_LivesAndGameOver ==
    pc # "main" =>
        /\ AfterRestart => remainingLives = 3
        /\ remainingLives =
               3 - obs.ballsLost + (IF GetAll(manager, "Ball") = <<>> THEN 1 ELSE 0)
        /\ state = "GameOver" => remainingLives = 0 /\ obs.ballsLost = 3
        /\ (obs.ballsLost = 3 /\ GetAll(manager, "Ball") # <<>>) => state = "GameOver"

\* C7 witness: the life check after the third loss has just run.
C7_Witness ==
    /\ pc = "update"
    /\ obs.spawned
    /\ obs.ballsLost = 3
    /\ state = "GameOver"
    /\ SourceLevel

\* C8: victory.  A life check that finds the Brick bucket empty and leaves
\* a life makes the state Victory; and the state is Victory only with the
\* Brick bucket empty.
C8_Victory ==
    /\ [](state = "Victory" => GetAll(manager, "Brick") = <<>>)
    /\ [][(/\ pc = "check"
           /\ pc' = "update"
           /\ GetAll(manager, "Brick") = <<>>
           /\ remainingLives' > 0) => state' = "Victory"]_vars

\* C8 witness: the life check has just found no brick.
C8_Witness ==
    /\ pc = "update"
    /\ state = "Victory"
    /\ remainingLives > 0
    /\ GetAll(manager, "Brick") = <<>>

\* C9: ball respawn.  A life check that finds the Ball bucket empty creates
\* exactly one ball, at (400, 300), and takes exactly one life; one that
\* finds a ball creates nothing and leaves the lives.
C9_BallRespawn ==
    [][(pc = "check" /\ pc' = "update") =>
          IF GetAll(manager, "Ball") = <<>>
          THEN /\ remainingLives' = remainingLives - 1
               /\ Len(manager'.entities) = Len(manager.entities) + 1
               /\ \A i \in DOMAIN manager.entities :
                      /\ manager'.entities[i] = manager.entities[i]
                      /\ Deref(manager', manager.entities[i]) =
                             Deref(manager, manager.entities[i])
               /\ GetAll(manager', "Ball") = <<LastPtr(manager')>>
               /\ Deref(manager', LastPtr(manager')).type = "Ball"
               /\ Deref(manager', LastPtr(manager')).x = 400 * Unit
               /\ Deref(manager', LastPtr(manager')).y = 300 * Unit
               /\ ~Deref(manager', LastPtr(manager')).destroyed
          ELSE /\ remainingLives' = remainingLives
               /\ manager'.entities = manager.entities
               /\ manager'.heap = manager.heap
               /\ GetAll(manager', "Ball") = GetAll(manager, "Ball")]_vars

\* C9 witness: the life check of this frame created a ball.
C9_Witness ==
    /\ pc = "update"
    /\ obs.spawned
    /\ remainingLives > 0

\* A change of the state between Paused and InProgress.
PauseSwitch == {state, state'} = {"Paused", "InProgress"}

\* C10 as stated: the state switches between Paused and InProgress only in
\* a frame where the pause key is down and was not down in the frame
\* before; a held key toggles once; pausePressedLastFrame is the key of the
\* frame before.
C10_PauseOnlyOnEdge ==
    /\ [][PauseSwitch => (obs'.keyP /\ ~obs'.prevP)]_vars
    /\ [][(pc = "top" /\ pc' = "restart" /\ obs'.keyP /\ obs'.prevP)
          => state' = state]_vars
    /\ [](pc = "top" => pausePressedLastFrame = obs.keyP)

\* C10 amended: the pause key handling switches the state between Paused
\* and InProgress exactly in the frames where the key is down and was not
\* down in the frame before, so that a held key toggles once; the only
\* other switch between the two is restart(), from InProgress to Paused;
\* and at the start of a frame pausePressedLastFrame is the key of the
\* frame before.
C10_PauseEdgeOrRestart ==
    /\ [][PauseSwitch =>
             \/ pc = "top" /\ obs'.keyP /\ ~obs'.prevP
             \/ pc = "restart" /\ obs'.keyR /\ state' = "Paused"]_vars
    /\ [][(pc = "top" /\ pc' = "restart") =>
             IF obs'.keyP /\ ~obs'.prevP /\ state \in {"Paused", "InProgress"}
             THEN PauseSwitch
             ELSE state' = state]_vars
    /\ [](pc = "top" => pausePressedLastFrame = obs.keyP)

\* C10 witness: the pause key is held in a second frame, in play, and has
\* toggled once.
C10_Witness ==
    /\ pc = "restart"
    /\ obs.keyP
    /\ obs.prevP
    /\ state = "InProgress"

\* The bricks the registry holds.
Bricks(m) == {p \in DOMAIN m.heap : IsLive(m, p) /\ Deref(m, p).type = "Brick"}

\* C11: brick durability.  A brick created with requiredHits = N is
\* destroyed exactly at the N-th collision resolved against it: the sum of
\* its requiredHits and of the collisions resolved against it stays what
\* restart made it, it is destroyed exactly when requiredHits is 0, and
\* requiredHits never goes below 0; and no brick a collision pass starts
\* with is destroyed, the refresh of the frame before having removed it.
C11_BrickDurability ==
    /\ [](\A p \in Bricks(manager) :
              /\ Deref(manager, p).requiredHits >= 0
              /\ Deref(manager, p).destroyed <=> Deref(manager, p).requiredHits = 0
              /\ HitsOf(obs, p) = 0 =>
                     Deref(manager, p).requiredHits \in 1..3
              /\ pc = "collide" =>
                     /\ ~Deref(manager, p).destroyed
                     /\ Deref(manager, p).requiredHits >= 1)
    /\ [][obs'.from = "none" =>
             \A p \in Bricks(manager) \cap Bricks(manager') :
                 Deref(manager', p).requiredHits + HitsOf(obs', p) =
                     Deref(manager, p).requiredHits + HitsOf(obs, p)]_vars

\* C11 witness: on the grid of the source, a brick made with requiredHits
\* = 2 has just been destroyed by the second collision resolved against it.
C11_Witness ==
    /\ SourceLevel
    /\ pc = "refresh"
    /\ \E p \in Bricks(manager) :
           /\ Deref(manager, p).destroyed
           /\ HitsOf(obs, p) = 2

\* The entities of a class the registry holds.
Paddles(m) == {p \in DOMAIN m.heap : IsLive(m, p) /\ Deref(m, p).type = "Paddle"}

Balls(m) == {p \in DOMAIN m.heap : IsLive(m, p) /\ Deref(m, p).type = "Ball"}

\* A step that is manager.update() of the entities on their own.
PhysUpdated == pc = "phys_update" /\ pc' = "phys_collide"

\* C12: paddle clamping.  From the restart position and under any sequence
\* of inputs the paddle is inside the field after every Paddle::update,
\* left() >= 0 and right() <= 800; and an update of a paddle at the left
\* edge does not move it further left, nor one at the right edge further
\* right.
C12_PaddleClamping ==
    /\ [](pc = "phys_collide" =>
              \A p \in Paddles(manager) :
                  /\ left(Deref(manager, p)) >= 0
                  /\ right(Deref(manager, p)) <= wndWidth * Unit)
    /\ [][PhysUpdated =>
             \A p \in Paddles(manager) :
                 /\ left(Deref(manager, p)) <= 0 =>
                        Deref(manager', p).x >= Deref(manager, p).x
                 /\ right(Deref(manager, p)) >= wndWidth * Unit =>
                        Deref(manager', p).x <= Deref(manager, p).x]_vars

\* C13: ball bounds.  After every Ball::update of the game a ball is
\* within the side bounds and below the top bound, left() >= 0, right() <=
\* 800 and top() >= 0, and a ball beyond the bottom bound is destroyed.
C13_BallBounds ==
    (SourceLevel /\ pc = "collide") =>
        \A p \in Balls(manager) :
            /\ left(Deref(manager, p)) >= 0
            /\ right(Deref(manager, p)) <= wndWidth * Unit
            /\ top(Deref(manager, p)) >= 0
            /\ bottom(Deref(manager, p)) > wndHeight * Unit =>
                   Deref(manager, p).destroyed

\* C14 as stated: an update that leaves a ball's bottom() beyond the field
\* height sets destroyed and leaves both components of the velocity as
\* they were.
C14_BottomExitKeepsVelocity ==
    [][PhysUpdated =>
          \A p \in Balls(manager) :
              bottom(Deref(manager', p)) > wndHeight * Unit =>
                  /\ Deref(manager', p).destroyed
                  /\ Deref(manager', p).vx = Deref(manager, p).vx
                  /\ Deref(manager', p).vy = Deref(manager, p).vy]_vars

\* C14 amended: an update that leaves a ball's bottom() beyond the field
\* height sets destroyed and leaves velocity.y as it was; it leaves
\* velocity.x as it was unless the ball is beyond a side bound too after
\* the move, and then velocity.x is negated.
C14_BottomExit ==
    [][PhysUpdated =>
          \A p \in Balls(manager) :
              bottom(Deref(manager', p)) > wndHeight * Unit =>
                  /\ Deref(manager', p).destroyed
                  /\ Deref(manager', p).vy = Deref(manager, p).vy
                  /\ Deref(manager', p).vx =
                         IF \/ left(Deref(manager', p)) < 0
                            \/ right(Deref(manager', p)) > wndWidth * Unit
                         THEN -Deref(manager, p).vx
                         ELSE Deref(manager, p).vx]_vars

\* C14 witness: an update has left a ball beyond the bottom bound and
\* beyond the left bound, destroyed.
C14_Witness ==
    /\ pc = "phys_collide"
    /\ \E p \in Balls(manager) :
           /\ bottom(Deref(manager, p)) > wndHeight * Unit
           /\ left(Deref(manager, p)) < 0
           /\ Deref(manager, p).destroyed

\* A step that is the collision pass of the entities on their own.
PhysCollided == pc = "phys_collide" /\ pc' = "phys_refresh"

\* Of two overlaps, the one of smaller magnitude.
MinMag(a, b) == IF Abs(a) < Abs(b) THEN a ELSE b

\* The smaller-magnitude horizontal and vertical overlap of a ball b and
\* a brick k, and the side the ball came from: the side of the smaller
\* overlap.
MinX(k, b) == MinMag(right(b) - left(k), right(k) - left(b))

MinY(k, b) == MinMag(bottom(b) - top(k), bottom(k) - top(b))

FromLeft(k, b) == Abs(right(b) - left(k)) < Abs(right(k) - left(b))

FromTop(k, b) == Abs(bottom(b) - top(k)) < Abs(bottom(k) - top(b))

\* C15: brick-ball bounce axis.  On an intersecting pair, if |minX| <
\* |minY| then velocity.x becomes -|velocity.x| for a ball from the left
\* and |velocity.x| otherwise and velocity.y stays; otherwise, a tie
\* included, velocity.y becomes -|velocity.y| for a ball from the top and
\* |velocity.y| otherwise and velocity.x stays.
C15_BounceAxis ==
    [][PhysCollided =>
          \A k \in Bricks(manager), b \in Balls(manager) :
              isIntersecting(Deref(manager, k), Deref(manager, b)) =>
                  IF Abs(MinX(Deref(manager, k), Deref(manager, b)))
                         < Abs(MinY(Deref(manager, k), Deref(manager, b)))
                  THEN /\ Deref(manager', b).vx =
                              IF FromLeft(Deref(manager, k), Deref(manager, b))
                              THEN -Abs(Deref(manager, b).vx)
                              ELSE Abs(Deref(manager, b).vx)
                       /\ Deref(manager', b).vy = Deref(manager, b).vy
                  ELSE /\ Deref(manager', b).vy =
                              IF FromTop(Deref(manager, k), Deref(manager, b))
                              THEN -Abs(Deref(manager, b).vy)
                              ELSE Abs(Deref(manager, b).vy)
                       /\ Deref(manager', b).vx = Deref(manager, b).vx]_vars

\* C15 witness: the first collision pass has resolved a collision whose
\* two minimal overlaps have the same magnitude, and the ball, which came
\* from below, moves down.
C15_Witness ==
    /\ pc = "phys_refresh"
    /\ frames = 1
    /\ \E k \in Bricks(manager), b \in Balls(manager) :
           /\ HitsOf(obs, k) = 1
           /\ isIntersecting(Deref(manager, k), Deref(manager, b))
           /\ Abs(MinX(Deref(manager, k), Deref(manager, b)))
                  = Abs(MinY(Deref(manager, k), Deref(manager, b)))
           /\ MinX(Deref(manager, k), Deref(manager, b)) > 0
           /\ ~FromTop(Deref(manager, k), Deref(manager, b))
           /\ Deref(manager, b).vy > 0

\* C16: a brick-ball collision takes exactly 1 from the brick's
\* requiredHits, destroys the brick iff the new value is <= 0, and changes
\* neither the ball's destroyed flag, nor its position, nor the absolute
\* value of a component of its velocity.
C16_BrickCollisionEffect ==
    [][PhysCollided =>
          \A k \in Bricks(manager), b \in Balls(manager) :
              isIntersecting(Deref(manager, k), Deref(manager, b)) =>
                  /\ Deref(manager', k).requiredHits =
                         Deref(manager, k).requiredHits - 1
                  /\ Deref(manager', k).destroyed <=>
                         Deref(manager', k).requiredHits <= 0
                  /\ Deref(manager', b).destroyed = Deref(manager, b).destroyed
                  /\ Deref(manager', b).x = Deref(manager, b).x
                  /\ Deref(manager', b).y = Deref(manager, b).y
                  /\ Abs(Deref(manager', b).vx) = Abs(Deref(manager, b).vx)
                  /\ Abs(Deref(manager', b).vy) = Abs(Deref(manager, b).vy)]_vars

\* C16 witness: the first collision pass has resolved a collision against
\* a brick of 3 hits, which is left with 2 and not destroyed.
C16_Witness ==
    /\ pc = "phys_refresh"
    /\ frames = 1
    /\ \E k \in Bricks(manager) :
           /\ HitsOf(obs, k) = 1
           /\ Deref(manager, k).requiredHits = 2
           /\ ~Deref(manager, k).destroyed

\* C17: the resolvers are no-ops on pairs that do not intersect.  A ball
\* that intersects no paddle and no brick is left as it was, and so is a
\* brick that no ball intersects; the paddle is never changed.
C17_NoOpUnlessIntersecting ==
    [][PhysCollided =>
          /\ \A b \in Balls(manager) :
                 (\A e \in Paddles(manager) \cup Bricks(manager) :
                     ~isIntersecting(Deref(manager, e), Deref(manager, b)))
                 => Deref(manager', b) = Deref(manager, b)
          /\ \A k \in Bricks(manager) :
                 (\A b \in Balls(manager) :
                     ~isIntersecting(Deref(manager, k), Deref(manager, b)))
                 => Deref(manager', k) = Deref(manager, k)
          /\ \A q \in Paddles(manager) :
                 Deref(manager', q) = Deref(manager, q)]_vars

\* C17 witness: a collision pass has left a ball that ends less than a
\* step above the paddle, over it, and resolved no collision.
C17_Witness ==
    /\ pc = "phys_refresh"
    /\ obs.bounced = 0
    /\ \E q \in Paddles(manager), b \in Balls(manager) :
           /\ ~isIntersecting(Deref(manager, q), Deref(manager, b))
           /\ bottom(Deref(manager, b)) < top(Deref(manager, q))
           /\ bottom(Deref(manager, b)) + BallStep > top(Deref(manager, q))
           /\ Deref(manager, b).x = Deref(manager, q).x

\* C18: paddle-ball repositioning.  Right after a resolved paddle-ball
\* collision the ball lies above the paddle's top edge, bottom() <= top(),
\* with its x unchanged, and the pair does not intersect; and the
\* collision pass of the next frame resolves no collision for the pair.
C18_PaddleRepositioning ==
    /\ [][PhysCollided =>
             \A q \in Paddles(manager), b \in Balls(manager) :
                 isIntersecting(Deref(manager, q), Deref(manager, b)) =>
                     /\ bottom(Deref(manager', b)) <= top(Deref(manager', q))
                     /\ Deref(manager', b).x = Deref(manager, b).x
                     /\ ~isIntersecting(Deref(manager', q), Deref(manager', b))]_vars
    /\ []((pc = "phys_collide" /\ obs.bounced > 0) =>
              \A q \in Paddles(manager), b \in Balls(manager) :
                  ~isIntersecting(Deref(manager, q), Deref(manager, b)))

\* C18 witness: the frame after a resolved paddle-ball collision has
\* updated the pair, the ball moving down, over the paddle.
C18_Witness ==
    /\ pc = "phys_collide"
    /\ frames = 2
    /\ obs.bounced > 0
    /\ \E q \in Paddles(manager), b \in Balls(manager) :
           /\ Deref(manager, b).vy > 0
           /\ left(Deref(manager, q)) <= Deref(manager, b).x
           /\ Deref(manager, b).x <= right(Deref(manager, q))

\* C19: whenever solvePaddleBallCollision resolves a collision, posFactor
\* = (ball.x - paddle.x) / paddle.width lies in [-0.5, 0.5]: the ball's
\* centre is at most half the paddle's width from the paddle's centre.
C19_PosFactorRange ==
    pc = "phys_collide" =>
        \A q \in Paddles(manager), b \in Balls(manager) :
            isIntersecting(Deref(manager, q), Deref(manager, b)) =>
                2 * Abs(Deref(manager, b).x - Deref(manager, q).x)
                    <= width(Deref(manager, q))

\* C20: a resolved paddle-ball collision leaves the ball moving up,
\* velocity.y < 0, whatever the velocity of the ball and for every paddle
\* velocity in {-8, 0, 8}.
C20_UpwardAfterPaddle ==
    [][PhysCollided =>
          \A q \in Paddles(manager), b \in Balls(manager) :
              (/\ isIntersecting(Deref(manager, q), Deref(manager, b))
               /\ Deref(manager, q).vx \in {-(PaddleDefVelocity * Unit), 0,
                                             PaddleDefVelocity * Unit})
              => Deref(manager', b).vy < 0]_vars

\* Two rectangles that touch along a vertical edge: the right edge of mA
\* is the left edge of mB and their vertical extents overlap.
TouchingEdge(mA, mB) ==
    /\ right(mA) = left(mB)
    /\ bottom(mA) >= top(mB)
    /\ top(mA) <= bottom(mB)

\* C21: AABB test symmetry.  isIntersecting(A, B) = isIntersecting(B, A)
\* for every two rectangles, and two rectangles that touch exactly along
\* an edge (right(A) = left(B), with overlapping vertical extent) count
\* as intersecting.
C21_AabbSymmetry ==
    \A p, q \in Owned(manager) :
        LET mA == Deref(manager, p)
            mB == Deref(manager, q)
        IN  /\ isIntersecting(mA, mB) = isIntersecting(mB, mA)
            /\ TouchingEdge(mA, mB) => isIntersecting(mA, mB)

\* C21 witness: the collision pass has resolved the collision of a ball
\* whose right edge is exactly the left edge of the brick.
C21_Witness ==
    /\ pc = "phys_refresh"
    /\ \E k \in Bricks(manager), b \in Balls(manager) :
           /\ TouchingEdge(Deref(manager, b), Deref(manager, k))
           /\ HitsOf(obs, k) = 1

\* The pointers of a sequence are in the order their objects were created.
InCreationOrder(s) == \A i, j \in DOMAIN s : i < j => s[i] < s[j]

\* The entities of concrete type T the manager owns, in the order of the
\* owning vector.
OwnedOfType(m, T) == SelectSeq(m.entities, LAMBDA p : Deref(m, p).type = T)

\* C22: order preservation.  After any sequence of create<T>, destroyed
\* markings and refresh calls, getAll<T>() lists exactly the T entities
\* that were created and not yet purged, in their creation order; the
\* owning vector and every bucket keep their survivors in creation order.
C22_OrderPreservation ==
    /\ InCreationOrder(manager.entities)
    /\ \A k \in DOMAIN manager.groupedEntities :
           InCreationOrder(manager.groupedEntities[k])
    /\ \A T \in Types : GetAll(manager, T) = OwnedOfType(manager, T)

\* The entity a create step has made: the last one of the owning vector.
Created(m) == Deref(m, LastPtr(m))

\* C23: create<T> appends exactly one new, non-destroyed entity at the end
\* of the owning vector and one reference to it at the end of the bucket
\* for T; every other bucket and every previously existing entry of both
\* structures is unchanged.
C23_CreateAppends ==
    [][obs'.op = "create" =>
          LET ptr == LastPtr(manager')
              k == hashCode[Created(manager').type]
          IN  /\ manager'.entities = Append(manager.entities, ptr)
              /\ ptr \notin Owned(manager) \cup BucketPtrs(manager)
              /\ ~IsLive(manager, ptr)
              /\ IsLive(manager', ptr)
              /\ ~Created(manager').destroyed
              /\ Bucket(manager', k) = Append(Bucket(manager, k), ptr)
              /\ \A j \in (DOMAIN manager.groupedEntities
                           \cup DOMAIN manager'.groupedEntities) \ {k} :
                     /\ j \in DOMAIN manager.groupedEntities
                     /\ j \in DOMAIN manager'.groupedEntities
                     /\ manager'.groupedEntities[j] = manager.groupedEntities[j]
              /\ \A p \in DOMAIN manager.heap :
                     Deref(manager', p) = Deref(manager, p)]_vars

\* C23 witness: a create has appended to a bucket that held a pointer,
\* while another bucket held one too.
C23_Witness ==
    /\ pc = "manager"
    /\ obs.op = "create"
    /\ Len(Bucket(manager, hashCode[Created(manager).type])) = 2
    /\ \E j \in DOMAIN manager.groupedEntities :
           /\ j # hashCode[Created(manager).type]
           /\ manager.groupedEntities[j] # <<>>

\* A step that is manager.update() of a frame of the game.
GameUpdated == pc = "update" /\ pc' = "collide"

\* update() ran exactly once on the entity e, which it left as f.
UpdatedOnce(e, f) ==
    CASE e.type = "Ball" -> f.x = e.x + e.vx /\ f.y = e.y + e.vy
      [] e.type = "Paddle" ->
             /\ f.vx \in {-(PaddleDefVelocity * Unit), 0, PaddleDefVelocity * Unit}
             /\ f.x = e.x + f.vx
             /\ f.y = e.y
      [] OTHER -> f = e

\* C24: in every frame that simulates, every entity of the owning vector
\* (a ball spawned earlier in the same frame included) has update()
\* invoked exactly once, the owning vector being in creation order, and
\* all updates complete before the first collision resolution of the
\* frame: manager.update() is one step of the frame, the only one that
\* leads to the collision pass, it resolves no collision, and the
\* collision pass runs no update.
C24_UpdateOncePerFrame ==
    [][/\ (pc = "update" \/ pc' = "collide") => GameUpdated
       /\ GameUpdated =>
              /\ InCreationOrder(manager.entities)
              /\ manager'.entities = manager.entities
              /\ \A p \in Owned(manager) :
                     /\ UpdatedOnce(Deref(manager, p), Deref(manager', p))
                     /\ Deref(manager', p).requiredHits
                            = Deref(manager, p).requiredHits
              /\ obs'.hits = obs.hits
       /\ pc = "collide" =>
              \A p \in Owned(manager) :
                  /\ Deref(manager', p).x = Deref(manager, p).x
                  /\ Deref(manager', p).type # "Ball"
                         => Deref(manager', p).y = Deref(manager, p).y]_vars

\* C24 witness: the update of the frame that spawned a ball for the lost
\* one has run, and the new ball has made its first step.
C24_Witness ==
    /\ pc = "collide"
    /\ remainingLives = StartLives - 1
    /\ obs.ballsLost = 1
    /\ \E p \in Balls(manager) :
           /\ p = LastPtr(manager)
           /\ Deref(manager, p).x = BallStart.x + BallStart.vx
           /\ Deref(manager, p).y = BallStart.y + BallStart.vy
           /\ Deref(manager, p).vx = BallStart.vx
           /\ Deref(manager, p).vy = BallStart.vy

\* C25: bucket type-homogeneity.  For every type T, every entity reachable
\* through getAll<T>() / forEach<T>() was created by create<T> (its
\* concrete type is T), for every assignment of the keys
\* typeid(T).hash_code() to the types.
C25_BucketHomogeneity ==
    \A T \in Types :
        \A i \in DOMAIN GetAll(manager, T) :
            Deref(manager, GetAll(manager, T)[i]).type = T

\* No entity the manager owns is indexed under the key of T: none was
\* created, or refresh purged them all, or clear ran.
NoneIndexed(m, T) ==
    \A p \in Owned(m) : hashCode[Deref(m, p).type] # hashCode[T]

\* C26: an empty query is not an error.  getAll<T>() for a type with no
\* indexed entities (never created, all purged by refresh, or after
\* clear) returns an empty sequence, over which forEach<T> invokes fn
\* zero times, and the query changes no entity and no bucket's content.
C26_EmptyQuery ==
    [][/\ \A T \in Types :
              NoneIndexed(manager', T) => GetAll(manager', T) = <<>>
       /\ obs'.op = "getAll" =>
              /\ manager'.entities = manager.entities
              /\ manager'.heap = manager.heap
              /\ DOMAIN manager.groupedEntities
                     \subseteq DOMAIN manager'.groupedEntities
              /\ \A k \in HashKeys : Bucket(manager', k) = Bucket(manager, k)]_vars

\* C26 witness: a query has inserted the key of a type of which nothing
\* was created since the manager was last empty, while an entity is
\* indexed under another key.
C26_Witness ==
    /\ pc = "manager"
    /\ obs.op = "getAll"
    /\ \A p \in DOMAIN manager.heap : IsLive(manager, p)
    /\ \E k, j \in DOMAIN manager.groupedEntities :
           /\ manager.groupedEntities[k] = <<>>
           /\ manager.groupedEntities[j] # <<>>

\* The ball e moved by its velocity stays strictly inside the field.
FreeFlight(e) ==
    LET f == [e EXCEPT !.x = e.x + e.vx, !.y = e.y + e.vy]
    IN  /\ left(f) > 0
        /\ right(f) < wndWidth * Unit
        /\ top(f) > 0
        /\ bottom(f) < wndHeight * Unit

\* C27: free-flight step.  For a ball whose bounding box after the move
\* stays strictly inside the field, Ball::update adds the velocity to the
\* position once and leaves velocity and destroyed unchanged.
C27_FreeFlight ==
    [][PhysUpdated =>
          \A p \in Balls(manager) :
              FreeFlight(Deref(manager, p)) =>
                  Deref(manager', p) =
                      [Deref(manager, p) EXCEPT
                          !.x = Deref(manager, p).x + Deref(manager, p).vx,
                          !.y = Deref(manager, p).y + Deref(manager, p).vy]]_vars

\* C27 witness: the ball of restart, alone, at (400, 300) with velocity
\* (-8, -8), has made one step and is at (392, 292) with that velocity.
C27_Witness ==
    /\ pc = "phys_collide"
    /\ frames = 1
    /\ Len(manager.entities) = 1
    /\ Deref(manager, LastPtr(manager)) =
           [BallStart EXCEPT !.x = 392 * Unit, !.y = 292 * Unit]
    /\ BallStart.x = 400 * Unit /\ BallStart.y = 300 * Unit
    /\ BallStart.vx = -8 * Unit /\ BallStart.vy = -8 * Unit

\* C28: a frame in which the state, after pause-key and restart-key
\* handling, is not InProgress changes nothing in the simulation: its one
\* remaining step ends the frame and leaves the registry (membership and
\* every field of every entity) and remainingLives as the input handling
\* left them.
C28_IdleFrame ==
    [][(pc = "check" /\ state # "InProgress") =>
          /\ pc' = "top"
          /\ manager' = manager
          /\ remainingLives' = remainingLives]_vars

\* C28 witness: a frame of a game paused in mid-play has ended, a ball
\* in flight away from its start position.
C28_Witness ==
    /\ pc = "top"
    /\ state = "Paused"
    /\ frames > 1
    /\ \E p \in Balls(manager) : Deref(manager, p).x # BallStart.x

\* C29: within one simulated frame, between the start of Manager::update()
\* and the start of Manager::refresh(), no entity is added to or removed
\* from the owning vector or any bucket, and no object is deleted: the
\* collision pass sees every entity that existed when the update began,
\* those marked destroyed earlier in the frame included.
C29_StableView ==
    [][(pc = "update" \/ pc = "collide") =>
          /\ manager'.entities = manager.entities
          /\ manager'.groupedEntities = manager.groupedEntities
          /\ DOMAIN manager'.heap = DOMAIN manager.heap
          /\ \A p \in DOMAIN manager.heap :
                 /\ IsLive(manager', p) = IsLive(manager, p)
                 /\ Deref(manager', p).type = Deref(manager, p).type]_vars

\* C29 witness: the collision pass of a frame has run, and the owning
\* vector and the bucket of the balls still hold the ball the update of
\* that frame marked destroyed.
C29_Witness ==
    /\ pc = "refresh"
    /\ \E i \in DOMAIN GetAll(manager, "Ball") :
           /\ GetAll(manager, "Ball")[i] \in Owned(manager)
           /\ PtrDestroyed(manager, GetAll(manager, "Ball")[i])

\* C30: on a frame where the quit key is down the loop of Game::run
\* terminates before any other processing of that frame: the loop ends
\* only from the top of a frame, by a step that changes no game variable,
\* and nothing of the loop runs once it has ended.
C30_QuitFirst ==
    [][/\ pc # "done"
       /\ pc' = "done" =>
              /\ pc = "top"
              /\ UNCHANGED <<manager, state, remainingLives,
                             pausePressedLastFrame>>]_vars

\* C30 witness: the loop has ended in the middle of a game in progress.
C30_Witness ==
    /\ pc = "done"
    /\ state = "InProgress"
    /\ frames > 1

\* C31: in the Game of p09, after any call to restart (a second restart
\* during play included) the bricks vector holds exactly brkCountX *
\* brkCountY = 44 bricks, none destroyed, the ball and the paddle are at
\* their start positions and state is Paused.
C31_P09RestartRebuilds ==
    obs.op = "restart" =>
        /\ Len(manager.bricks) = brkCountX * brkCountY
        /\ \A i \in DOMAIN manager.bricks : ~manager.bricks[i].destroyed
        /\ manager.ball = BallStart
        /\ manager.paddle = PaddleStart
        /\ state = "Paused"

\* The game is over: lost or won.
Ended == state \in {"GameOver", "Victory"}

\* A step of the input handling or of the rest of a frame that began with
\* the game over, other than a restart.
EndedFrameStep ==
    /\ Ended
    /\ pc \in {"top", "restart", "check"}
    /\ ~(pc = "restart" /\ obs'.keyR)

\* C32: GameOver and Victory are left only by restart.  Once the state is
\* GameOver or Victory, no step of a frame without a restart, whatever
\* the pause key does, changes the state, remainingLives or the registry,
\* and the frame ends without simulating.
C32_EndedUntilRestart ==
    [][EndedFrameStep =>
          /\ state' = state
          /\ remainingLives' = remainingLives
          /\ manager' = manager
          /\ pc' \in {"top", "restart", "check", "done"}]_vars

\* C32 witness: in a frame that began with the game won, the pause key
\* was pressed and the restart key was not, and the game is still won.
C32_Witness ==
    /\ pc = "check"
    /\ state = "Victory"
    /\ obs.keyP /\ ~obs.prevP
    /\ ~obs.keyR

\* The registry m holds what restart makes and nothing else: the grid of
\* bricks, then a ball and the paddle at their start positions, nothing
\* destroyed and no object of before.
FreshRegistry(m) ==
    /\ Len(m.entities) = level[1] * level[2] + 2
    /\ DOMAIN m.heap = Owned(m)
    /\ BucketPtrs(m) = Owned(m)
    /\ \A p \in Owned(m) : IsLive(m, p) /\ ~PtrDestroyed(m, p)
    /\ Len(GetAll(m, "Brick")) = level[1] * level[2]
    /\ Objects(m, "Ball") = <<BallStart>>
    /\ Objects(m, "Paddle") = <<PaddleStart>>

\* C33: restart is level-triggered and applied after the pause toggle of
\* the same frame.  Every frame in which the restart key is down ends its
\* input handling with state Paused, remainingLives 3 and a fresh
\* registry, even when that frame is also a pause-key press frame, and no
\* simulation step runs in that frame.
C33_RestartAfterPause ==
    [][/\ (pc = "restart" /\ obs'.keyR) =>
              /\ pc' = "check"
              /\ state' = "Paused"
              /\ remainingLives' = 3
              /\ FreshRegistry(manager')
       /\ (pc = "check" /\ obs.keyR) =>
              /\ pc' = "top"
              /\ manager' = manager
              /\ state' = state
              /\ remainingLives' = remainingLives]_vars

\* C33 witness: the restart key was down in a frame in which the pause
\* key was pressed on a game paused in mid-play, which the toggle had
\* resumed; the input handling has ended with a paused, fresh game.
C33_Witness ==
    /\ pc = "check"
    /\ obs.keyR
    /\ obs.keyP /\ ~obs.prevP
    /\ obs.from = "InProgress"
    /\ obs.had < Len(manager.entities)
    /\ state = "Paused"

\* C34: GameOver takes precedence over Victory.  If, in one InProgress
\* evaluation, the Brick bucket is empty and remainingLives is <= 0 after
\* the life check, the evaluation leaves state GameOver, and the rest of
\* the frame leaves the state as the evaluation made it.
C34_GameOverFirst ==
    [][/\ (/\ pc = "check" /\ pc' = "update"
           /\ GetAll(manager', "Brick") = <<>>
           /\ remainingLives' <= 0) => state' = "GameOver"
       /\ pc \in {"update", "collide", "refresh", "draw"} => state' = state]_vars

\* C34 witness: the frame of an evaluation that found no brick and took
\* the last life has ended in GameOver.
C34_Witness ==
    /\ pc = "top"
    /\ frames = 1
    /\ obs.ballsLost = 0
    /\ GetAll(manager, "Brick") = <<>>
    /\ remainingLives = 0
    /\ state = "GameOver"

\* A step that is a call of restart(): from main, or by the restart key.
RestartStep == pc = "main" \/ (pc = "restart" /\ obs'.keyR)

\* C35: lives invariant.  At every frame boundary, the state before the
\* first restart included, 0 <= remainingLives <= 3 and state is
\* GameOver exactly when remainingLives is 0; and remainingLives never
\* increases except by restart.
C35_LivesInvariant ==
    /\ [](pc \in {"main", "top"} =>
              /\ remainingLives \in 0..3
              /\ state = "GameOver" <=> remainingLives = 0)
    /\ [][remainingLives' > remainingLives => RestartStep]_vars

\* C35 witness: a frame boundary of a game lost in play.
C35_Witness ==
    /\ pc = "top"
    /\ state = "GameOver"
    /\ remainingLives = 0
    /\ obs.ballsLost = 3

\* C36: population invariant.  In every state reachable after the first
\* restart the Ball bucket holds at most one ball and the Paddle bucket
\* holds exactly one paddle, which is never marked destroyed; and the
\* number of bricks never increases except by restart.
C36_Population ==
    /\ [](pc # "main" =>
              /\ Len(GetAll(manager, "Ball")) <= 1
              /\ Len(GetAll(manager, "Paddle")) = 1
              /\ Cardinality(Balls(manager)) <= 1
              /\ Cardinality(Paddles(manager)) = 1
              /\ \A p \in Paddles(manager) : ~Deref(manager, p).destroyed)
    /\ [][Len(GetAll(manager', "Brick")) > Len(GetAll(manager, "Brick"))
              => RestartStep]_vars

\* C36 witness: the life check has replaced the ball refresh erased, in a
\* game that has lost bricks.
C36_Witness ==
    /\ pc = "update"
    /\ obs.spawned
    /\ Len(GetAll(manager, "Ball")) = 1
    /\ Len(GetAll(manager, "Brick")) < level[1] * level[2]
    /\ Len(GetAll(manager, "Brick")) > 0

\* C37: at every frame boundary of Game::run no entity held by the
\* registry has destroyed = true, and every brick in the registry has
\* 1 <= requiredHits <= 3.
C37_CleanBoundary ==
    pc = "top" =>
        \A p \in Owned(manager) \cup BucketPtrs(manager) :
            /\ IsLive(manager, p)
            /\ ~Deref(manager, p).destroyed
            /\ Deref(manager, p).type = "Brick"
                   => Deref(manager, p).requiredHits \in 1..3

\* C37 witness: a frame boundary of a game in which a brick was destroyed
\* and erased and another one, hit, is left with hits to go.
C37_Witness ==
    /\ pc = "top"
    /\ Cardinality(Bricks(manager)) < level[1] * level[2]
    /\ \E p \in Bricks(manager) :
           /\ HitsOf(obs, p) >= 1
           /\ Deref(manager, p).requiredHits >= 1

\* The places of the buckets of m: a key and a position in its vector.
BucketSlots(m) ==
    UNION {{<<k, i>> : i \in DOMAIN m.groupedEntities[k]} :
              k \in DOMAIN m.groupedEntities}

\* C38: registry partition invariant.  After every completed Manager
\* operation every entity of the owning vector is referenced by exactly
\* one bucket exactly once, and the buckets hold nothing else, so the size
\* of the owning vector is the sum of the sizes of the buckets.
C38_Partition ==
    /\ \A p \in Owned(manager) :
           Cardinality({s \in BucketSlots(manager) :
                           manager.groupedEntities[s[1]][s[2]] = p}) = 1
    /\ Cardinality(Owned(manager)) = Len(manager.entities)
    /\ Cardinality(BucketSlots(manager)) = Len(manager.entities)

\* C38 witness: a refresh has purged an entity and left two, in two
\* buckets.
C38_Witness ==
    /\ pc = "manager"
    /\ obs.op = "refresh"
    /\ obs.purged = 1
    /\ Len(manager.entities) = 2
    /\ \E k, j \in DOMAIN manager.groupedEntities :
           /\ k # j
           /\ Len(manager.groupedEntities[k]) = 1
           /\ Len(manager.groupedEntities[j]) = 1

\* C39: refresh is idempotent and touches only destroyed entities.  A
\* refresh right after a refresh leaves the registry as it is (as does
\* refresh applied to the registry any refresh has left); a refresh with
\* no destroyed entity present leaves the owning vector and every bucket
\* unchanged; and no refresh changes a field of an entity it leaves.
C39_RefreshIdempotent ==
    [][obs'.op = "refresh" =>
          /\ obs.op = "refresh" => manager' = manager
          /\ ManagerRefresh(manager') = manager'
          /\ (\A p \in Owned(manager) : ~PtrDestroyed(manager, p)) =>
                 /\ manager'.entities = manager.entities
                 /\ manager'.groupedEntities = manager.groupedEntities
          /\ \A p \in Owned(manager') :
                 /\ p \in Owned(manager)
                 /\ Deref(manager', p) = Deref(manager, p)]_vars

\* C39 witness: a refresh has purged two entities at once and left one.
C39_Witness ==
    /\ pc = "manager"
    /\ obs.op = "refresh"
    /\ obs.purged = 2
    /\ Len(manager.entities) = 1
    /\ BucketPtrs(manager) = Owned(manager)

====
